---- MODULE Spec2Model ----
(***************************************************************************)
(* A model of the Ollama DevTools assistant (kanishk1122/bulind):          *)
(*   panel.js      the DevTools panel: the automation loop and its state   *)
(*   background.js the service worker: model call, JSON extraction, relay  *)
(*   content.js    the content script: executes one command on the page    *)
(*                                                                         *)
(* Text is modelled as a sequence of tokens.  A token is one character     *)
(* class or one lexical unit of the reply:                                 *)
(*   "w"  a word character of prose (matches \w, is not JSON)              *)
(*   "j"  the word json (matches \w+, is not JSON)                         *)
(*   "s"  a whitespace character (matches \s, JSON whitespace)             *)
(*   "F"  a fence marker, three backticks                                  *)
(*   "{" "}" ","  the JSON punctuation                                     *)
(*   a member token  "key":"value", e.g. "a:click" is "action":"click"     *)
(* Member values hold no brace and no backtick.  The token alphabet has no *)
(* array, number or literal, so a text that parses is an object.           *)
(***************************************************************************)
EXTENDS Naturals, Sequences, FiniteSets, TLC

VARIABLES
  conversationHistory,  \* panel.js: let conversationHistory
  isAutomationRunning,  \* panel.js: let isAutomationRunning
  askBtnDisabled,       \* panel.js: askBtn.disabled
  btnLabel,             \* panel.js: askWithScreenshotBtn.textContent
  timers,               \* pending setTimeout(runAutomationLoop, 1000) callbacks
  loops,                \* loop iterations waiting for a capture callback
  askQ,                 \* ASK_OLLAMA requests on their way to the background
  fetching,             \* background: model calls awaiting the service
  tabHistories,         \* background.js: tabHistories[tabId]
  respQ,                \* sendResponse answers on their way to the panel
  statusQ,              \* AUTOMATION_STATUS broadcasts on their way to the panel
  tabQ,                 \* AUTOMATE_ACTION messages on their way to the page
  cbQ,                  \* chrome.tabs.sendMessage callbacks to run
  pageLog,              \* effects the content script applied to the page
  waiting,              \* content.js: pending wait timers
  asks,                 \* number of model requests the panel has sent
  clicks,               \* number of clicks on the start/stop button
  variant,              \* which ASK_OLLAMA handler of background.js is installed
  chunkQ,               \* OLLAMA_CHUNK messages on their way to the panel
  callbacks,            \* the sendMessage callbacks to run with the answers in respQ, in order
  panelLog,             \* panel: the lines written to resultDiv and to the debug log
  screen,               \* content.js: the viewport, a coordinate message and its pixel point
  reader,               \* background.js: the reader of a streamed response body
  popupResult,          \* popup.js: resultDiv.textContent
  faults,               \* content.js: the executions in which a fault was raised
  relay,                \* panel (vision variant): the delivery of sendMessageToTab
  endedBy,              \* what last set isAutomationRunning to false: the user,
                        \* a status of the handler, an execution outcome, an
                        \* error response or a failed capture ("none" in a run)
  last                  \* "return" when the last step was the loop returning at its top check

vars == << conversationHistory, isAutomationRunning, askBtnDisabled, btnLabel,
           timers, loops, askQ, fetching, tabHistories, respQ, statusQ, tabQ,
           cbQ, pageLog, waiting, asks, clicks, variant, chunkQ, callbacks, panelLog, screen, reader, popupResult, faults, relay, endedBy, last >>

(***************************************************************************)
(* Bounds                                                                  *)
(***************************************************************************)
MaxPieces == 4
MaxAsks == 2
MaxClicks == 3
MaxQuestions == 1
MaxSide == 12
MaxStreamPieces == 4
MaxCuts == 2
Precision == 7

(***************************************************************************)
(* JavaScript values                                                       *)
(***************************************************************************)
Undefined == "undefined"

Truthy(v) == v \notin {Undefined, ""}

Get(obj, k) == IF k \in DOMAIN obj THEN obj[k] ELSE Undefined

EmptyObject == [k \in {} |-> ""]

Msg(text, arg) == [text |-> text, arg |-> arg]

Min(S) == CHOOSE x \in S : \A y \in S : x <= y

Max(S) == CHOOSE x \in S : \A y \in S : x >= y

substring(t, n) == SubSeq(t, 1, IF Len(t) < n THEN Len(t) ELSE n)

(***************************************************************************)
(* Tokens                                                                  *)
(***************************************************************************)
MemberTokens ==
  { "a:click", "a:type", "a:wait", "a:done", "a:answer", "a:error", "a:",
    "sel:#b", "val:x", "msg:m", "k:v", "r:x", "r:y" }

MemberKey(tok) ==
  CASE tok \in {"a:click", "a:type", "a:wait", "a:done", "a:answer", "a:error", "a:"}
         -> "action"
    [] tok = "sel:#b" -> "selector"
    [] tok = "val:x" -> "value"
    [] tok = "msg:m" -> "message"
    [] tok \in {"r:x", "r:y"} -> "response"
    [] OTHER -> "k"

MemberVal(tok) ==
  CASE tok = "a:click" -> "click"
    [] tok = "a:type" -> "type"
    [] tok = "a:wait" -> "wait"
    [] tok = "a:done" -> "done"
    [] tok = "a:answer" -> "answer"
    [] tok = "a:error" -> "error"
    [] tok = "a:" -> ""
    [] tok = "sel:#b" -> "#b"
    [] tok = "val:x" -> "x"
    [] tok = "msg:m" -> "m"
    [] tok = "r:x" -> "x"
    [] tok = "r:y" -> "y"
    [] OTHER -> "v"

(***************************************************************************)
(* JSON.parse on a token text: whitespace, an object, whitespace           *)
(***************************************************************************)
NoParse == [ok |-> FALSE, val |-> EmptyObject]

IsMembers(m) ==
  /\ Len(m) % 2 = 1
  /\ \A i \in 1..Len(m) :
       IF i % 2 = 1 THEN m[i] \in MemberTokens ELSE m[i] = ","

\* A repeated key keeps its last value.
ObjectOf(m) ==
  LET idx == {i \in 1..Len(m) : i % 2 = 1}
      keys == {MemberKey(m[i]) : i \in idx}
  IN  [k \in keys |-> MemberVal(m[Max({i \in idx : MemberKey(m[i]) = k})])]

JSONParse(text) ==
  LET t == SelectSeq(text, LAMBDA c : c # "s")
  IN  IF Len(t) >= 2 /\ t[1] = "{" /\ t[Len(t)] = "}"
      THEN LET inner == SubSeq(t, 2, Len(t) - 1)
           IN  IF inner = << >> THEN [ok |-> TRUE, val |-> EmptyObject]
               ELSE IF IsMembers(inner) THEN [ok |-> TRUE, val |-> ObjectOf(inner)]
               ELSE NoParse
      ELSE NoParse

(***************************************************************************)
(* background.js, the first ASK_OLLAMA handler: extraction of the command  *)
(***************************************************************************)
DropWhile(t, C) ==
  LET keep == {i \in 1..Len(t) : t[i] \notin C}
  IN  IF keep = {} THEN << >> ELSE SubSeq(t, Min(keep), Len(t))

DropTrailing(t, C) ==
  LET keep == {i \in 1..Len(t) : t[i] \notin C}
  IN  IF keep = {} THEN << >> ELSE SubSeq(t, 1, Max(keep))

WordChars == {"w", "j"}

Space == {"s"}

NoMatch == [matched |-> FALSE, group |-> << >>]

\* responseText.match(/```(?:\w+)?\s*([\s\S]*?)\s*```/): the leftmost match opens
\* at the first fence and closes at the next one; the greedy \w+ and \s* take
\* the leading word characters and whitespace, the lazy group stops before the
\* whitespace that precedes the closing fence.
codeBlockMatch(text) ==
  LET fences == {i \in 1..Len(text) : text[i] = "F"}
  IN  IF Cardinality(fences) < 2 THEN NoMatch
      ELSE LET open == Min(fences)
               close == Min(fences \ {open})
               body == SubSeq(text, open + 1, close - 1)
           IN  [matched |-> TRUE,
                group |-> DropTrailing(DropWhile(DropWhile(body, WordChars), Space), Space)]

responseText(raw) ==
  LET m == codeBlockMatch(raw)
  IN  IF m.matched /\ m.group # << >> THEN m.group ELSE raw

\* An extraction without the fallback of the catch block.
potentialJsonAbsent(text) == NoParse

\* The fallback of the catch block: the first "{" to the last "}".
potentialJson(text) ==
  LET opens == {i \in 1..Len(text) : text[i] = "{"}
      closes == {i \in 1..Len(text) : text[i] = "}"}
  IN  IF opens # {} /\ closes # {} /\ Max(closes) > Min(opens)
      THEN JSONParse(SubSeq(text, Min(opens), Max(closes)))
      ELSE NoParse

\* actionCommand after the extraction block; ok = FALSE is null.
actionCommand(raw) ==
  LET text == responseText(raw)
      direct == JSONParse(text)
  IN  IF direct.ok THEN direct ELSE potentialJson(text)

(***************************************************************************)
(* background.js, the first ASK_OLLAMA handler: what it does with a reply  *)
(***************************************************************************)
INSPECTED_TAB_ID == 1

Terminal == {"error", "done", "answer"}

StatusMsg(status, message, action, tabId) ==
  [type |-> "AUTOMATION_STATUS", status |-> status, message |-> message,
   action |-> action, tabId |-> tabId]

Response(status, message) == [status |-> status, message |-> message]

NotAnAction(raw) ==
  Msg("AI did not return a valid JSON action. It said: ", substring(raw, 100))

\* Each branch gives the handler's three outputs for a non-streaming reply:
\* the status events it broadcasts, the messages it sends to the tab, and its
\* sendResponse answer.

\* A handler that guesses a command for a reply it could not parse.
OnNotJsonGuessed(raw, tabId) ==
  [status |-> << >>,
   tab |-> << [type |-> "AUTOMATE_ACTION", command |-> [action |-> "click"], tabId |-> tabId] >>,
   resp |-> Response("ok", Msg("Action initiated: ", << "click" >>))]

\* if (!actionCommand): reported, not relayed.
OnNotJson(raw, tabId) ==
  [status |-> << StatusMsg("error", NotAnAction(raw), "none", tabId) >>,
   tab |-> << >>,
   resp |-> Response("ok", Msg("AI response was not a valid action. Retrying...", << >>))]

\* A handler that forwards an object without an action.
OnMissingActionForwarded(cmd, tabId) ==
  [status |-> << >>,
   tab |-> << [type |-> "AUTOMATE_ACTION", command |-> cmd, tabId |-> tabId] >>,
   resp |-> Response("ok", Msg("Action initiated: ", << Get(cmd, "action") >>))]

\* if (actionCommand && !actionCommand.action): reported, not relayed.
OnMissingAction(cmd, tabId) ==
  [status |-> << StatusMsg("error",
                   Msg("AI returned invalid JSON structure (missing 'action' field).", << >>),
                   "error", tabId) >>,
   tab |-> << >>,
   resp |-> Response("ok", Msg("Invalid JSON structure.", << >>))]

\* action is error, done or answer: forwarded to the panel as a status.
OnTerminal(cmd, tabId) ==
  [status |-> << StatusMsg("ok",
                   IF Truthy(Get(cmd, "message"))
                   THEN Msg(Get(cmd, "message"), << >>)
                   ELSE Msg("Task marked as ", << Get(cmd, "action") >>),
                   Get(cmd, "action"), tabId) >>,
   tab |-> << >>,
   resp |-> Response("ok", Msg("Action: ", << Get(cmd, "action") >>))]

\* The automation path: chrome.tabs.sendMessage(tabId, {AUTOMATE_ACTION, command}).
OnRelay(cmd, tabId) ==
  [status |-> << >>,
   tab |-> << [type |-> "AUTOMATE_ACTION", command |-> cmd, tabId |-> tabId] >>,
   resp |-> Response("ok", Msg("Action initiated: ", << Get(cmd, "action") >>))]

Dispatch(raw, tabId) ==
  LET ac == actionCommand(raw)
  IN  IF ~ac.ok THEN OnNotJson(raw, tabId)
      ELSE IF ~Truthy(Get(ac.val, "action")) THEN OnMissingAction(ac.val, tabId)
      ELSE IF Get(ac.val, "action") \in Terminal THEN OnTerminal(ac.val, tabId)
      ELSE OnRelay(ac.val, tabId)

\* A catch block that answers ok.
HandlerErrorSwallowed(kind) == Response("ok", Msg("Ollama API error: ", << kind >>))

\* The catch block of the listener.
HandlerError(kind) ==
  IF kind = "unreachable"
  THEN Response("error", Msg("Failed to connect to Ollama at ", << "http://localhost:11434" >>))
  ELSE Response("error", Msg("Ollama API error: ", << kind >>))

\* The handler resumes after await callOllamaGenerate(...).
\* callOllamaGenerate with stream = true: every line of the streamed body is
\* sent to the panel as one OLLAMA_CHUNK message (the service's lines parse).
StreamChunks(f) ==
  [i \in 1..Len(f.response) |->
     [type |-> "OLLAMA_CHUNK", chunk |-> f.response[i], tabId |-> f.tabId]]

StreamingExtracted(f) ==
  [status |-> Dispatch(f.response, f.tabId).status,
   tab |-> Dispatch(f.response, f.tabId).tab,
   resp |-> Response("ok", Msg("Streaming response started...", << >>)),
   turns |-> << >>, chunks |-> StreamChunks(f)]

\* The streaming path of the handler: the confirmation is answered, nothing
\* is extracted and the history is left alone.
Streaming(f) ==
  [status |-> << >>, tab |-> << >>,
   resp |-> Response("ok", Msg("Streaming response started...", << >>)),
   turns |-> << >>, chunks |-> StreamChunks(f)]

\* The non-streaming path of the first handler.
NonStreaming(f) ==
  [status |-> Dispatch(f.response, f.tabId).status,
   tab |-> Dispatch(f.response, f.tabId).tab,
   resp |-> Dispatch(f.response, f.tabId).resp,
   turns |-> << [role |-> "assistant", content |-> f.response] >>,
   chunks |-> << >>]

AskOllamaReply ==
  /\ variant = 1
  /\ fetching # << >>
  /\ LET f == Head(fetching)
         d == IF f.stream THEN Streaming(f) ELSE NonStreaming(f)
     IN  /\ fetching' = Tail(fetching)
         /\ callbacks' = callbacks \o f.cb
         /\ IF f.kind # "ok"
            THEN /\ respQ' = Append(respQ, HandlerError(f.kind))
                 /\ last' = "other"
                 /\ UNCHANGED << tabHistories, statusQ, tabQ, chunkQ >>
            ELSE /\ tabHistories' = tabHistories \o d.turns
                 /\ statusQ' = statusQ \o d.status
                 /\ tabQ' = tabQ \o d.tab
                 /\ chunkQ' = chunkQ \o d.chunks
                 /\ respQ' = Append(respQ, d.resp)
                 /\ last' = "other"
  /\ UNCHANGED << conversationHistory, isAutomationRunning, askBtnDisabled, btnLabel,
                  timers, loops, askQ, cbQ, pageLog, waiting, asks, clicks, variant,
                  panelLog, screen, reader, popupResult, faults, relay, endedBy >>

(***************************************************************************)
(* The model service: what a call of callOllamaGenerate will end with      *)
(***************************************************************************)
RText == << "w" >>
RNoAction == << "{", "k:v", "}" >>
RDone == << "{", "a:done", "}" >>
RAnswer == << "{", "a:answer", ",", "val:x", "}" >>
RError == << "{", "a:error", ",", "msg:m", "}" >>
RClick == << "{", "a:click", ",", "sel:#b", "}" >>
RWait == << "w", "F", "j", "s", "{", "a:wait", "}", "s", "F" >>

Replies == { RText, RNoAction, RDone, RAnswer, RError, RClick, RWait }

\* "ok": resp.json(); "unreachable": fetch rejects; "status": !resp.ok.
ServiceAnswers ==
  { [kind |-> "ok", response |-> r] : r \in Replies }
    \cup { [kind |-> k, response |-> << >>] : k \in {"unreachable", "status"} }

\* The listener up to await callOllamaGenerate(...).  The service's answer is
\* drawn here; calls complete in the order they were made.
\* The callback chrome.runtime.sendMessage was given with a message: the one
\* sendResponse will run.  The automation loop's callback is AskCallback.
Registered(m) == IF "cb" \in DOMAIN m THEN << m.cb >> ELSE << >>

\* A handler that checks the model only.
ThrownModelOnly(m) ==
  IF ~m.model THEN << "Model not specified." >> ELSE << >>

\* The errors the handler throws before it calls the service: if (!model)
\* throw ..., then if (!tabId) throw ...
Thrown(m) ==
  IF ~m.model THEN << "Model not specified." >>
  ELSE IF m.tabId = 0 THEN << "Missing tabId in message payload." >>
  ELSE << >>

AskOllamaReceive ==
  /\ askQ # << >>
  /\ Head(askQ).type = "ASK_OLLAMA"
  /\ LET m == Head(askQ)
     IN  /\ askQ' = Tail(askQ)
         /\ IF Thrown(m) # << >>
            THEN /\ respQ' = Append(respQ, Response("error", Msg(Thrown(m)[1], << >>)))
                 /\ callbacks' = callbacks \o Registered(m)
                 /\ fetching' = fetching
                 /\ last' = "other"
            ELSE /\ \E ans \in ServiceAnswers :
                      fetching' = Append(fetching,
                                    [kind |-> ans.kind, response |-> ans.response,
                                     stream |-> m.stream, tabId |-> m.tabId,
                                     cb |-> Registered(m)])
                 /\ respQ' = respQ
                 /\ callbacks' = callbacks
                 /\ last' = "other"
  /\ UNCHANGED << conversationHistory, isAutomationRunning, askBtnDisabled, btnLabel,
                  timers, loops, tabHistories, statusQ, tabQ, cbQ, pageLog, waiting,
                  asks, clicks, variant, chunkQ, panelLog, screen, reader, popupResult,
                  faults, relay, endedBy >>

(***************************************************************************)
(* content.js: the AUTOMATE_ACTION handler                                 *)
(***************************************************************************)
\* What document.querySelector(selector) finds on the page.
Elements == {"none", "plain", "inForm"}

\* document.querySelector(selector) on the page: nothing matches "#missing",
\* nor the element name undefined that a missing selector is read as.
querySelector(selector) ==
  IF selector \in {"#missing", Undefined} THEN {"none"} ELSE Elements

\* document.elementFromPoint(x, y) on the page: the point with x = 0.9 has no
\* element under it.
elementFromPoint(x, y) == IF x = "0.9" THEN {"none"} ELSE Elements

Outcome(status, message, effects) ==
  [status |-> status, message |-> message, effects |-> effects, fault |-> FALSE]

\* A catch block that sends an empty message.
CaughtSilent(status, action, effects) ==
  [status |-> status, message |-> Msg("", << >>), effects |-> effects, fault |-> TRUE]

\* The outcome sent after the catch block ran: status is what it was when the
\* fault was raised, effects what had been applied by then.
Caught(status, action, effects) ==
  [status |-> status, message |-> Msg("Execution error for action ", << action >>),
   effects |-> effects, fault |-> TRUE]

\* A JSON number as a command's value; every other defined value is a string.
Numbers == {"num:5"}

IsString(v) == v \notin Numbers \cup {Undefined}

\* Values that are the decimal text of an integer.
Durations == {"0", "250", "-5"}

\* parseInt(value, 10), as the text the message shows: the integer of a
\* decimal text or of a number; any other value gives NaN.
parseInt(value) ==
  IF value \in Durations THEN value
  ELSE IF value = "num:5" THEN "5"
  ELSE "NaN"

\* parseInt(value, 10) || 1000: NaN and 0 are falsy.
waitTime(value) == IF parseInt(value) \in {"NaN", "0"} THEN "1000" ELSE parseInt(value)

\* A handler that reports a click on an element it did not find.
ElementNotFoundIgnored(selector) ==
  Outcome("ok", Msg("Successfully clicked element using selector: ", << selector >>), << "click" >>)

\* if (!element): nothing is applied.
ElementNotFound(selector) ==
  Outcome("error", Msg("Element not found for selector: ", << selector >>), << >>)

\* The handler's outcome and the effects it applied to the page.  A command
\* without selector makes querySelector look for an element named undefined,
\* which no page holds; an empty selector makes querySelector throw; a value
\* that is no string makes value.substring throw after the element was changed
\* and status was set to "ok".
AutomateAction(cmd, el) ==
  LET action == Get(cmd, "action")
      selector == Get(cmd, "selector")
      value == Get(cmd, "value")
  IN  CASE action = "wait" ->
             Outcome("ok", Msg("Successfully waited for ms", << waitTime(value) >>), << >>)
        [] action = "done" -> Outcome("ok", Msg("Task marked as complete.", << >>), << >>)
        [] action = "answer" -> Outcome("ok", Msg("AI answered: ", << value >>), << >>)
        [] action = "navigate" ->
             IF ~Truthy(value)
             THEN Outcome("error", Msg("Navigate action missing value parameter for URL.", << >>), << >>)
             ELSE Outcome("ok", Msg("Successfully navigated to ", << value >>), << "navigate" >>)
        [] action = "scroll" ->
             Outcome("ok", Msg("Successfully scrolled window to position: ",
                               << IF Truthy(value) THEN value ELSE "500" >>), << "scroll" >>)
        [] OTHER ->
             IF selector = ""
             THEN Caught("error", action, << >>)
             ELSE IF el = "none" \/ selector = Undefined
             THEN ElementNotFound(selector)
             ELSE CASE action = "click" ->
                         Outcome("ok", Msg("Successfully clicked element using selector: ", << selector >>),
                                 << "click" >>)
                    [] action = "type" ->
                         IF value = Undefined
                         THEN Outcome("error", Msg("Type action missing value parameter for selector: ",
                                                   << selector >>), << >>)
                         ELSE IF ~IsString(value)
                         THEN Caught("ok", action, << "value", "input", "change" >>)
                         ELSE Outcome("ok", Msg("Successfully typed into: ", << value, selector >>),
                                      << "value", "input", "change" >>)
                    [] action = "scroll_to_element" ->
                         Outcome("ok", Msg("Successfully scrolled element into view: ", << selector >>),
                                 << "scrollIntoView" >>)
                    [] action = "get_text" -> Outcome("ok", Msg("innerText", << selector >>), << >>)
                    [] action = "get_value" -> Outcome("ok", Msg("value", << selector >>), << >>)
                    [] action = "submit" ->
                         IF el = "inForm"
                         THEN Outcome("ok", Msg("Successfully submitted form containing element: ",
                                                << selector >>), << "submit" >>)
                         ELSE Outcome("error", Msg("Element is not in a form to submit: ", << selector >>),
                                      << >>)
                    [] OTHER -> Outcome("error", Msg("Unknown automation action: ", << action >>), << >>)

Callback(lastError, resp, action, tabId) ==
  [lastError |-> lastError, resp |-> resp, action |-> action, tabId |-> tabId]

NoReceiver == Response("error", Msg("Could not establish connection. Receiving end does not exist.", << >>))

\* chrome.tabs.sendMessage reaches the content script, whose listener runs, or
\* finds no listener and runs the callback with chrome.runtime.lastError set.
TabDeliver ==
  /\ tabQ # << >>
  /\ Head(tabQ).type = "AUTOMATE_ACTION"
  /\ LET m == Head(tabQ)
         action == Get(m.command, "action")
     IN  /\ tabQ' = Tail(tabQ)
         /\ \/ /\ cbQ' = Append(cbQ, Callback(TRUE, NoReceiver, action, m.tabId))
               /\ last' = "other"
               /\ UNCHANGED << pageLog, waiting, faults >>
            \/ \E el \in querySelector(Get(m.command, "selector")) :
                 LET o == AutomateAction(m.command, el)
                     cb == Callback(FALSE, Response(o.status, o.message), action, m.tabId)
                 IN  /\ pageLog' = pageLog \o o.effects
                     /\ faults' = IF o.fault
                                  THEN Append(faults, [escaped |-> FALSE, status |-> o.status,
                                                       effects |-> o.effects])
                                  ELSE faults
                     /\ IF action = "wait"
                        THEN waiting' = Append(waiting, cb) /\ cbQ' = cbQ
                        ELSE waiting' = waiting /\ cbQ' = Append(cbQ, cb)
                     /\ last' = "other"
  /\ UNCHANGED << conversationHistory, isAutomationRunning, askBtnDisabled, btnLabel,
                  timers, loops, askQ, fetching, tabHistories, respQ, statusQ, asks,
                  clicks, variant, chunkQ, callbacks, panelLog, screen, reader, popupResult, relay, endedBy >>

\* content.js: the wait action's setTimeout fires and calls sendResponse.
WaitTimer ==
  /\ waiting # << >>
  /\ waiting' = Tail(waiting)
  /\ cbQ' = Append(cbQ, Head(waiting))
  /\ last' = "other"
  /\ UNCHANGED << conversationHistory, isAutomationRunning, askBtnDisabled, btnLabel,
                  timers, loops, askQ, fetching, tabHistories, respQ, statusQ, tabQ,
                  pageLog, asks, clicks, variant, chunkQ, callbacks, panelLog, screen, reader, popupResult, faults, relay, endedBy >>

\* background.js: the callback given to chrome.tabs.sendMessage.
RelayStatus(cb) ==
  IF cb.lastError
  THEN StatusMsg("error", Msg("Failed to communicate with content script: ", << cb.resp.message.text >>),
                 cb.action, cb.tabId)
  ELSE StatusMsg(cb.resp.status, cb.resp.message, cb.action, cb.tabId)

RelayCallback ==
  /\ variant = 1
  /\ cbQ # << >>
  /\ cbQ' = Tail(cbQ)
  /\ statusQ' = Append(statusQ, RelayStatus(Head(cbQ)))
  /\ last' = "other"
  /\ UNCHANGED << conversationHistory, isAutomationRunning, askBtnDisabled, btnLabel,
                  timers, loops, askQ, fetching, tabHistories, respQ, tabQ, pageLog,
                  waiting, asks, clicks, variant, chunkQ, callbacks, panelLog, screen, reader, popupResult, faults, relay, endedBy >>

(***************************************************************************)
(* panel.js: the automation loop                                           *)
(***************************************************************************)
IdleLabel == "Ask with Screenshot"

\* A loop without the check at its top.
runAutomationLoopUnchecked(running, disabled, label) ==
  /\ askBtnDisabled' = disabled
  /\ btnLabel' = label
  /\ loops' = [loops EXCEPT !.html = @ + 1]

\* runAutomationLoop() up to its first asynchronous call.  disabled and label
\* are the controls as the caller left them.
runAutomationLoop(running, disabled, label) ==
  IF ~running
  THEN /\ askBtnDisabled' = FALSE
       /\ btnLabel' = IdleLabel
       /\ loops' = loops
  ELSE /\ askBtnDisabled' = disabled
       /\ btnLabel' = label
       /\ loops' = [loops EXCEPT !.html = @ + 1]

\* The click handler of askWithScreenshotBtn: stop, a rejected start (no
\* prompt or no multimodal model), or start.
StartStopClick ==
  /\ clicks < MaxClicks
  /\ clicks' = clicks + 1
  /\ IF isAutomationRunning
     THEN /\ isAutomationRunning' = FALSE
          /\ askBtnDisabled' = FALSE
          /\ btnLabel' = IdleLabel
          /\ endedBy' = "user"
          /\ last' = "other"
          /\ UNCHANGED << conversationHistory, loops >>
     ELSE \E ready \in BOOLEAN :
            IF ~ready
            THEN /\ last' = "other"
                 /\ UNCHANGED << conversationHistory, isAutomationRunning, askBtnDisabled,
                                 btnLabel, loops, endedBy >>
            ELSE /\ isAutomationRunning' = TRUE
                 /\ conversationHistory' = << >>
                 /\ runAutomationLoop(TRUE, TRUE, "Stop Automation")
                 /\ endedBy' = "none"
                 /\ last' = "other"
  /\ UNCHANGED << timers, askQ, fetching, tabHistories, respQ, statusQ, tabQ, cbQ,
                  pageLog, waiting, asks, variant, chunkQ, callbacks, panelLog, screen, reader, popupResult, faults, relay >>

\* The setTimeout callback of the status listener.
TimerFire ==
  /\ timers > 0
  /\ timers' = timers - 1
  /\ runAutomationLoop(isAutomationRunning, askBtnDisabled, btnLabel)
  /\ last' = IF isAutomationRunning THEN "other" ELSE "return"
  /\ UNCHANGED << conversationHistory, isAutomationRunning, askQ, fetching, tabHistories,
                  respQ, statusQ, tabQ, cbQ, pageLog, waiting, asks, clicks, variant, chunkQ, callbacks, panelLog, screen, reader, popupResult, faults, relay,
                  endedBy >>

\* A capture callback that finds no result stops the run and ends the iteration.
CaptureFailed(stage) ==
  /\ loops' = [loops EXCEPT ![stage] = @ - 1]
  /\ isAutomationRunning' = FALSE
  /\ endedBy' = "capture"
  /\ last' = "other"
  /\ UNCHANGED << askQ, asks >>

\* The callback of getPageHTMLEval.
HtmlCallback ==
  /\ loops.html > 0
  /\ \/ CaptureFailed("html")
     \/ /\ loops' = [loops EXCEPT !.html = @ - 1, !.tab = @ + 1]
        /\ last' = "other"
        /\ UNCHANGED << isAutomationRunning, endedBy, askQ, asks >>
  /\ UNCHANGED << conversationHistory, askBtnDisabled, btnLabel, timers, fetching,
                  tabHistories, respQ, statusQ, tabQ, cbQ, pageLog, waiting, clicks,
                  variant, chunkQ, callbacks, panelLog, screen, reader, popupResult, faults, relay >>

\* The callback of chrome.tabs.get.
TabCallback ==
  /\ loops.tab > 0
  /\ \/ CaptureFailed("tab")
     \/ /\ loops' = [loops EXCEPT !.tab = @ - 1, !.shot = @ + 1]
        /\ last' = "other"
        /\ UNCHANGED << isAutomationRunning, endedBy, askQ, asks >>
  /\ UNCHANGED << conversationHistory, askBtnDisabled, btnLabel, timers, fetching,
                  tabHistories, respQ, statusQ, tabQ, cbQ, pageLog, waiting, clicks,
                  variant, chunkQ, callbacks, panelLog, screen, reader, popupResult, faults, relay >>

AskOllama(history) ==
  [type |-> "ASK_OLLAMA", model |-> TRUE, stream |-> FALSE,
   tabId |-> INSPECTED_TAB_ID, history |-> history]

\* The callback of chrome.tabs.captureVisibleTab: composes the prompt from the
\* history as it is now and sends the request.
ShotCallback ==
  /\ loops.shot > 0
  /\ \/ CaptureFailed("shot")
     \/ /\ asks < MaxAsks
        /\ loops' = [loops EXCEPT !.shot = @ - 1]
        /\ askQ' = Append(askQ, AskOllama(conversationHistory))
        /\ asks' = asks + 1
        /\ last' = "other"
        /\ UNCHANGED << isAutomationRunning, endedBy >>
  /\ UNCHANGED << conversationHistory, askBtnDisabled, btnLabel, timers, fetching,
                  tabHistories, respQ, statusQ, tabQ, cbQ, pageLog, waiting, clicks,
                  variant, chunkQ, callbacks, panelLog, screen, reader, popupResult, faults, relay >>

\* The callback the loop gave to chrome.runtime.sendMessage.
AskCallback ==
  /\ respQ # << >>
  /\ respQ' = Tail(respQ)
  /\ IF Head(respQ).status = "error"
     THEN isAutomationRunning' = FALSE /\ endedBy' = "resp"
     ELSE UNCHANGED << isAutomationRunning, endedBy >>
  /\ last' = "other"
  /\ UNCHANGED << conversationHistory, askBtnDisabled, btnLabel, timers, loops, askQ,
                  fetching, tabHistories, statusQ, tabQ, cbQ, pageLog, waiting, asks,
                  clicks, variant, chunkQ, callbacks, panelLog, screen, reader, popupResult, faults, relay >>

Observation(message) == [role |-> "assistant", content |-> << "Observation: ", message >>]

StopsLoop(msg) == msg.action = "done" \/ msg.action = "error" \/ msg.status = "error"

\* chrome.runtime.onMessage of the panel, for an AUTOMATION_STATUS message.
\* A listener that takes every message as its own.
ForAnotherTabNever(msg) == FALSE

\* msg.tabId && msg.tabId !== INSPECTED_TAB_ID
ForAnotherTab(msg) == msg.tabId # 0 /\ msg.tabId # INSPECTED_TAB_ID

OnAutomationStatus ==
  /\ statusQ # << >>
  /\ statusQ' = Tail(statusQ)
  /\ LET msg == Head(statusQ)
     IN  IF ForAnotherTab(msg)
         THEN /\ last' = "other"
              /\ UNCHANGED << conversationHistory, isAutomationRunning, endedBy, timers >>
         ELSE /\ conversationHistory' = Append(conversationHistory, Observation(msg.message))
              /\ IF StopsLoop(msg)
                 THEN /\ isAutomationRunning' = FALSE
                      /\ endedBy' = IF msg.action \in Terminal \cup {"none"}
                                    THEN "status" ELSE "outcome"
                 ELSE UNCHANGED << isAutomationRunning, endedBy >>
              /\ timers' = timers + 1
              /\ last' = "other"
  /\ UNCHANGED << askBtnDisabled, btnLabel, loops, askQ, fetching, tabHistories, respQ,
                  tabQ, cbQ, pageLog, waiting, asks, clicks, variant, chunkQ, callbacks, panelLog, screen, reader, popupResult, faults, relay >>

(***************************************************************************)
(* The automation loop with the first handler of background.js             *)
(***************************************************************************)
\* sendMessageToTab has not been called.
NoDelivery == [phase |-> "idle"]

\* No coordinate message is being translated.
NoScreen == [phase |-> "none"]

\* No response body is being streamed.
NoStream == [phase |-> "none"]

\* The state after the scripts have loaded, without the model calls in flight.
Idle ==
  /\ conversationHistory = << >>
  /\ isAutomationRunning = FALSE
  /\ askBtnDisabled = FALSE
  /\ btnLabel = "Ask with Screenshot"
  /\ timers = 0
  /\ loops = [html |-> 0, tab |-> 0, shot |-> 0]
  /\ askQ = << >>
  /\ tabHistories = << >>
  /\ respQ = << >>
  /\ statusQ = << >>
  /\ tabQ = << >>
  /\ cbQ = << >>
  /\ pageLog = << >>
  /\ waiting = << >>
  /\ asks = 0
  /\ clicks = 0
  /\ endedBy = "none"
  /\ last = "other"
  /\ faults = << >>
  /\ relay = NoDelivery
  /\ chunkQ = << >>
  /\ callbacks = << >>
  /\ panelLog = << >>

Init ==
  /\ Idle
  /\ fetching = << >>
  /\ variant = 1
  /\ screen = NoScreen
  /\ reader = NoStream
  /\ popupResult = << >>

Next ==
  \/ StartStopClick
  \/ TimerFire
  \/ HtmlCallback
  \/ TabCallback
  \/ ShotCallback
  \/ AskCallback
  \/ OnAutomationStatus
  \/ AskOllamaReceive
  \/ AskOllamaReply
  \/ TabDeliver
  \/ WaitTimer
  \/ RelayCallback

Spec == Init /\ [][Next]_vars

(***************************************************************************)
(* background.js, the second ASK_OLLAMA handler (the file holds two)       *)
(***************************************************************************)
\* responseText.match(/```json\s*([\s\S]*?)\s*```/)
jsonMatch(text) ==
  LET opens == {i \in 1..Len(text) - 1 :
                  /\ text[i] = "F"
                  /\ text[i + 1] = "j"
                  /\ \E c \in i + 2..Len(text) : text[c] = "F"}
  IN  IF opens = {} THEN NoMatch
      ELSE LET open == Min(opens)
               close == Min({c \in open + 2..Len(text) : text[c] = "F"})
               body == SubSeq(text, open + 2, close - 1)
           IN  [matched |-> TRUE, group |-> DropTrailing(DropWhile(body, Space), Space)]

\* One JSON.parse of the fenced text or of the whole reply, no fallback.
actionCommandV2(raw) ==
  LET m == jsonMatch(raw)
  IN  JSONParse(IF m.matched /\ m.group # << >> THEN m.group ELSE raw)

\* Only error is answered directly; every other action is relayed, and a reply
\* that is no command is answered as text.  No branch broadcasts a status.
DispatchV2(raw, tabId) ==
  LET ac == actionCommandV2(raw)
      action == Get(ac.val, "action")
  IN  IF ac.ok /\ Truthy(action)
      THEN IF action = "error"
           THEN [status |-> << >>, tab |-> << >>,
                 resp |-> Response("ok",
                            IF Truthy(Get(ac.val, "message"))
                            THEN Msg(Get(ac.val, "message"), << >>)
                            ELSE Msg("The AI returned an unspecified error.", << >>))]
           ELSE OnRelay(ac.val, tabId)
      ELSE [status |-> << >>, tab |-> << >>, resp |-> Response("ok", Msg("result", raw))]

Prompt == << "prompt" >>

\* The non-streaming path of the second handler.
NonStreamingV2(f) ==
  [status |-> DispatchV2(f.response, f.tabId).status,
   tab |-> DispatchV2(f.response, f.tabId).tab,
   resp |-> DispatchV2(f.response, f.tabId).resp,
   turns |-> << [role |-> "user", content |-> Prompt],
                [role |-> "assistant", content |-> f.response] >>,
   chunks |-> << >>]

AskOllamaReplyV2 ==
  /\ variant = 2
  /\ fetching # << >>
  /\ LET f == Head(fetching)
         d == IF f.stream THEN Streaming(f) ELSE NonStreamingV2(f)
     IN  /\ fetching' = Tail(fetching)
         /\ callbacks' = callbacks \o f.cb
         /\ IF f.kind # "ok"
            THEN /\ respQ' = Append(respQ, Response("error", Msg("Ollama API error: ", << f.kind >>)))
                 /\ UNCHANGED << tabHistories, statusQ, tabQ, chunkQ >>
            ELSE /\ tabHistories' = tabHistories \o d.turns
                 /\ statusQ' = statusQ \o d.status
                 /\ tabQ' = tabQ \o d.tab
                 /\ chunkQ' = chunkQ \o d.chunks
                 /\ respQ' = Append(respQ, d.resp)
  /\ last' = "other"
  /\ UNCHANGED << conversationHistory, isAutomationRunning, askBtnDisabled, btnLabel,
                  timers, loops, askQ, cbQ, pageLog, waiting, asks, clicks, variant,
                  panelLog, screen, reader, popupResult, faults, relay, endedBy >>

\* The second handler's callback: its status carries no action.
RelayStatusV2(cb) ==
  IF cb.lastError
  THEN StatusMsg("error", Msg("Failed to communicate with content script: ", << cb.resp.message.text >>),
                 Undefined, cb.tabId)
  ELSE StatusMsg(cb.resp.status, cb.resp.message, Undefined, cb.tabId)

RelayCallbackV2 ==
  /\ variant = 2
  /\ cbQ # << >>
  /\ cbQ' = Tail(cbQ)
  /\ statusQ' = Append(statusQ, RelayStatusV2(Head(cbQ)))
  /\ last' = "other"
  /\ UNCHANGED << conversationHistory, isAutomationRunning, askBtnDisabled, btnLabel,
                  timers, loops, askQ, fetching, tabHistories, respQ, tabQ, pageLog,
                  waiting, asks, clicks, variant, chunkQ, callbacks, panelLog, screen, reader, popupResult, faults, relay, endedBy >>

\* The loop with either handler installed.
InitBoth ==
  /\ Idle
  /\ fetching = << >>
  /\ variant \in {1, 2}
  /\ screen = NoScreen
  /\ reader = NoStream
  /\ popupResult = << >>

NextBoth ==
  \/ Next
  \/ AskOllamaReplyV2
  \/ RelayCallbackV2

SpecBoth == InitBoth /\ [][NextBoth]_vars

(***************************************************************************)
(* content.js: the EXECUTE_COORDINATE_ACTION handler                       *)
(***************************************************************************)
CoordinateMessage(action, x, y, value) ==
  [type |-> "EXECUTE_COORDINATE_ACTION", action |-> action, x |-> x, y |-> y,
   value |-> value]

\* A handler that answers nothing when it finds no target.
NoTargetSilent(msg) == [responses |-> << >>, effects |-> << >>, escaped |-> FALSE]

\* The else branch of if (target).
NoTarget(msg) ==
  [responses |-> << Response("error", Msg("No element found at coordinates", << >>)) >>,
   effects |-> << >>, escaped |-> FALSE]

\* What the handler does with the element document.elementFromPoint gives:
\* the responses it sends, the effects on the page, and whether an exception
\* left the listener.  Without x or y the point is NaN and elementFromPoint
\* throws; the handler has no try block.
CoordinateAction(msg, el) ==
  IF msg.x = Undefined \/ msg.y = Undefined
  THEN [responses |-> << >>, effects |-> << >>, escaped |-> TRUE]
  ELSE IF el = "none"
  THEN NoTarget(msg)
  ELSE IF msg.action = "click"
  THEN [responses |-> << Response("success", Msg("Clicked <>", << el >>)) >>,
        effects |-> << "border", "click", "focus" >>, escaped |-> FALSE]
  ELSE IF msg.action = "type"
  THEN [responses |-> << Response("success", Msg("Typed into <>", << el >>)) >>,
        effects |-> << "border", "focus", "value", "input" >>, escaped |-> FALSE]
  ELSE [responses |-> << >>, effects |-> << "border" >>, escaped |-> FALSE]

(***************************************************************************)
(* The vision variant of the panel: sendMessageToTab                       *)
(***************************************************************************)
DefaultRetries == 3

AbsentListener == "Could not establish connection. Receiving end does not exist."

PortClosed == "The message port closed before a response was received."

\* logStatus(text, isError) ends a delivery.
Logged(r, text, arg, isError) ==
  [r EXCEPT !.phase = "done", !.log = [text |-> text, arg |-> arg, isError |-> isError]]

\* A delivery that starts with one retry more.
FirstAttemptLarger(msg) ==
  [phase |-> "sent", msg |-> msg, retries |-> DefaultRetries + 1, attempts |-> 1,
   injections |-> 0, injected |-> 0, responses |-> << >>,
   log |-> [text |-> "", arg |-> "", isError |-> FALSE]]

\* The delivery after the first chrome.tabs.sendMessage, retries = 3.
FirstAttempt(msg) ==
  [phase |-> "sent", msg |-> msg, retries |-> DefaultRetries, attempts |-> 1,
   injections |-> 0, injected |-> 0, responses |-> << >>,
   log |-> [text |-> "", arg |-> "", isError |-> FALSE]]

\* sendMessageToTab(tabId, message) with the default budget: the first
\* chrome.tabs.sendMessage is issued.
sendMessageToTab ==
  /\ relay = NoDelivery
  /\ tabQ = << >> /\ cbQ = << >> /\ pageLog = << >>
  /\ \E action \in {"click", "type", "hover"}, x \in {Undefined, "0.5", "0.9"},
        y \in {Undefined, "0.5"}, value \in {Undefined, "x"} :
       relay' = FirstAttempt(CoordinateMessage(action, x, y, value))
  /\ last' = "other"
  /\ UNCHANGED << conversationHistory, isAutomationRunning, askBtnDisabled, btnLabel,
                  timers, loops, askQ, fetching, tabHistories, respQ, statusQ, tabQ,
                  cbQ, pageLog, waiting, asks, clicks, variant, chunkQ, callbacks, panelLog, screen, reader, popupResult, faults, endedBy >>

\* A callback that retries after any delivery error.
OnDeliveryErrorRetryAny(r, err) ==
  IF r.retries > 0
  THEN {[r EXCEPT !.phase = "injecting", !.injections = @ + 1]}
  ELSE {Logged(r, "Error executing action on page: ", err, TRUE)}

\* A callback that retries without looking at the budget.
OnDeliveryErrorNoBudget(r, err) ==
  IF err = AbsentListener
  THEN {[r EXCEPT !.phase = "injecting", !.injections = @ + 1]}
  ELSE {Logged(r, "Error executing action on page: ", err, TRUE)}

\* The branch of the callback for chrome.runtime.lastError.
OnDeliveryError(r, err) ==
  IF r.retries > 0 /\ err = AbsentListener
  THEN {[r EXCEPT !.phase = "injecting", !.injections = @ + 1],
        Logged(r, "Cannot inject content script: API unavailable. Please reload page.", "", TRUE)}
  ELSE {Logged(r, "Error executing action on page: ", err, TRUE)}

\* The callback of chrome.tabs.sendMessage: no listener in the tab, or the
\* content script ran the coordinate handler.  A handler that threw or sent no
\* response ends the callback with the port-closed error.
DeliveryCallback ==
  /\ relay.phase = "sent"
  /\ \/ /\ relay' \in OnDeliveryError(relay, AbsentListener)
        /\ UNCHANGED << pageLog, faults >>
     \/ \E el \in elementFromPoint(relay.msg.x, relay.msg.y) :
          LET o == CoordinateAction(relay.msg, el)
              r == [relay EXCEPT !.responses = @ \o o.responses]
          IN  /\ pageLog' = pageLog \o o.effects
              /\ faults' = IF o.escaped
                           THEN Append(faults, [escaped |-> TRUE, status |-> "none",
                                                effects |-> o.effects])
                           ELSE faults
              /\ IF o.responses = << >>
                 THEN relay' \in OnDeliveryError(r, PortClosed)
                 ELSE relay' = Logged(r, "Action successful: ", o.responses[1].message.text, FALSE)
  /\ last' = "other"
  /\ UNCHANGED << conversationHistory, isAutomationRunning, askBtnDisabled, btnLabel,
                  timers, loops, askQ, fetching, tabHistories, respQ, statusQ, tabQ,
                  cbQ, waiting, asks, clicks, variant, chunkQ, callbacks, panelLog, screen, reader, popupResult, endedBy >>

\* A callback that sets the resend timer although the injection failed.
OnInjectionResendAnyway(r) ==
  {[r EXCEPT !.phase = "timer"], [r EXCEPT !.phase = "timer", !.injected = @ + 1]}

\* The callback's two branches: chrome.runtime.lastError set, or the timer
\* for the resend is set.
OnInjection(r) ==
  {Logged(r, "Injection failed: ", "lastError", TRUE),
   [r EXCEPT !.phase = "timer", !.injected = @ + 1]}

\* The callback of chrome.tabs.executeScript.
InjectionCallback ==
  /\ relay.phase = "injecting"
  /\ relay' \in OnInjection(relay)
  /\ last' = "other"
  /\ UNCHANGED << conversationHistory, isAutomationRunning, askBtnDisabled, btnLabel,
                  timers, loops, askQ, fetching, tabHistories, respQ, statusQ, tabQ,
                  cbQ, pageLog, waiting, asks, clicks, variant, chunkQ, callbacks, panelLog, screen, reader, popupResult, faults, endedBy >>

\* setTimeout(() => sendMessageToTab(tabId, message, retries - 1), 500).
ResendTimer ==
  /\ relay.phase = "timer"
  /\ relay' = [relay EXCEPT !.phase = "sent", !.retries = @ - 1, !.attempts = @ + 1]
  /\ last' = "other"
  /\ UNCHANGED << conversationHistory, isAutomationRunning, askBtnDisabled, btnLabel,
                  timers, loops, askQ, fetching, tabHistories, respQ, statusQ, tabQ,
                  cbQ, pageLog, waiting, asks, clicks, variant, chunkQ, callbacks, panelLog, screen, reader, popupResult, faults, endedBy >>

(***************************************************************************)
(* The executor alone: commands and coordinate messages sent to the tab    *)
(***************************************************************************)
ExecActions ==
  { "click", "type", "submit", "scroll_to_element", "get_text", "get_value",
    "navigate", "scroll", "wait", "done", "answer", "zoom" }

Commands ==
  { [action |-> a, selector |-> sel, value |-> v] :
      a \in ExecActions, sel \in {Undefined, "", "#b", "#missing"}, v \in {Undefined, "x"} \cup Numbers }
    \cup { [action |-> "wait", selector |-> Undefined, value |-> v] : v \in Durations }

\* A handler of background.js relays a command: the automation path with any
\* command the handler lets through.
RelayCommand ==
  /\ relay = NoDelivery
  /\ tabQ = << >> /\ cbQ = << >> /\ waiting = << >> /\ statusQ = << >> /\ pageLog = << >>
  /\ \E cmd \in Commands :
       /\ variant = 1 => cmd.action \notin Terminal
       /\ tabQ' = OnRelay(cmd, INSPECTED_TAB_ID).tab
  /\ last' = "other"
  /\ UNCHANGED << conversationHistory, isAutomationRunning, askBtnDisabled, btnLabel,
                  timers, loops, askQ, fetching, tabHistories, respQ, statusQ, cbQ,
                  pageLog, waiting, asks, clicks, variant, chunkQ, callbacks, panelLog, screen, reader, popupResult, faults, relay, endedBy >>

NextExec ==
  \/ RelayCommand
  \/ TabDeliver
  \/ WaitTimer
  \/ RelayCallback
  \/ RelayCallbackV2
  \/ sendMessageToTab
  \/ DeliveryCallback
  \/ InjectionCallback
  \/ ResendTimer

SpecExec == InitBoth /\ [][NextExec]_vars

(***************************************************************************)
(* The panel's own requests to the background: the Ask button of panel.js, *)
(* with or without streaming, and the vision variant's SEND_TO_TAB         *)
(***************************************************************************)
\* The click handler of askBtn: sends the prompt with the stream checkbox's
\* value, or asks for a prompt when the field is empty.
AskClick ==
  /\ ~askBtnDisabled
  /\ \/ /\ panelLog' = << "Write a prompt first." >>
        /\ UNCHANGED << askQ, asks >>
     \/ /\ asks < MaxQuestions
        /\ \E stream \in BOOLEAN :
             askQ' = Append(askQ, [type |-> "ASK_OLLAMA", model |-> TRUE,
                                   stream |-> stream, tabId |-> INSPECTED_TAB_ID,
                                   history |-> conversationHistory,
                                   cb |-> [kind |-> "ask", stream |-> stream]])
        /\ panelLog' = << "Waiting for response..." >>
        /\ asks' = asks + 1
  /\ last' = "other"
  /\ UNCHANGED << callbacks, conversationHistory, isAutomationRunning, askBtnDisabled, btnLabel,
                  timers, loops, fetching, tabHistories, respQ, statusQ, tabQ, cbQ,
                  pageLog, waiting, clicks, variant, chunkQ, faults, relay, endedBy, screen, reader, popupResult >>

\* The callback the Ask button gave to chrome.runtime.sendMessage.
AskClickCallback ==
  /\ callbacks # << >>
  /\ Head(callbacks).kind = "ask"
  /\ respQ # << >>
  /\ callbacks' = Tail(callbacks)
  /\ respQ' = Tail(respQ)
  /\ LET resp == Head(respQ)
     IN  IF resp.status = "error"
         THEN /\ panelLog' = << "Error: ", resp.message >>
              /\ UNCHANGED conversationHistory
         ELSE IF Head(callbacks).stream
         THEN /\ panelLog' = << >>
              /\ UNCHANGED conversationHistory
         ELSE /\ panelLog' = << resp.message >>
              /\ conversationHistory' = conversationHistory \o
                   << [role |-> "user", content |-> Prompt],
                      [role |-> "assistant", content |-> resp.message] >>
  /\ last' = "other"
  /\ UNCHANGED << isAutomationRunning, askBtnDisabled, btnLabel, timers, loops, askQ,
                  fetching, tabHistories, statusQ, tabQ, cbQ, pageLog, waiting, asks,
                  clicks, variant, chunkQ, faults, relay, endedBy, screen, reader, popupResult >>

\* chrome.runtime.onMessage of the panel, for an OLLAMA_CHUNK message and for
\* a DEBUG_LOG message, which logToUI drops while the panel's DEBUG is off.
OnChunk ==
  /\ chunkQ # << >>
  /\ chunkQ' = Tail(chunkQ)
  /\ LET msg == Head(chunkQ)
     IN  IF ForAnotherTab(msg) \/ msg.type = "DEBUG_LOG"
         THEN UNCHANGED panelLog
         ELSE panelLog' = Append(panelLog, msg.chunk)
  /\ last' = "other"
  /\ UNCHANGED << conversationHistory, isAutomationRunning, askBtnDisabled, btnLabel,
                  timers, loops, askQ, fetching, tabHistories, respQ, statusQ, tabQ,
                  cbQ, pageLog, waiting, asks, clicks, variant, callbacks, faults,
                  relay, endedBy, screen, reader, popupResult >>

\* logStatus(message, isError) appends one entry to resultDiv.
logStatus(text, arg, isError) == [text |-> text, arg |-> arg, isError |-> isError]

\* The vision variant of the panel, after it parsed a reply with a box_2d:
\* the centre of the box, normalized, is sent to the background as SEND_TO_TAB.
SendToTab ==
  /\ asks < MaxQuestions
  /\ \E action \in {"click", "type"}, x \in {"0.5", "0.9"}, y \in {"0.5"} :
       /\ askQ' = Append(askQ, [type |-> "SEND_TO_TAB", tabId |-> INSPECTED_TAB_ID,
                                payload |-> CoordinateMessage(action, x, y, "x"),
                                cb |-> [kind |-> "send", stream |-> FALSE]])
       /\ panelLog' = Append(panelLog, logStatus("AI targeted coordinates: ", << x, y >>, FALSE))
  /\ asks' = asks + 1
  /\ last' = "other"
  /\ UNCHANGED << callbacks, conversationHistory, isAutomationRunning, askBtnDisabled, btnLabel,
                  timers, loops, fetching, tabHistories, respQ, statusQ, tabQ, cbQ,
                  pageLog, waiting, clicks, variant, chunkQ, faults, relay, endedBy,
                  screen, reader, popupResult >>

\* A last branch that answers nothing.
UnknownTypeSilent(m) == [tab |-> << >>, resp |-> << >>]

\* background.js, the listener's last branch: a message whose type no branch
\* names, SEND_TO_TAB among them, is answered "unknown type".
UnknownType(m) ==
  [tab |-> << >>, resp |-> << Response("error", Msg("unknown type", << >>)) >>]

\* background.js, the DEBUG_PING branch.
DebugPing(m) ==
  [tab |-> << >>, resp |-> << Response("ok", Msg("pong", << >>)) >>]

\* What the fetch of /api/tags ends with: a list of models, or a failure.
TagsAnswers ==
  { [kind |-> "ok", models |-> ms] : ms \in { << >>, << "m1" >> } }
    \cup { [kind |-> k, models |-> << >>] : k \in {"unreachable", "status"} }

\* background.js, the LIST_MODELS branch, and the catch block for its errors.
ListModels(m, ans) ==
  [tab |-> << >>,
   resp |-> << IF ans.kind = "ok" THEN Response("ok", Msg("models", ans.models))
               ELSE HandlerError(ans.kind) >>]

\* The branch of the listener a message that is no ASK_OLLAMA request takes.
OtherBranch(m, ans) ==
  IF m.type = "DEBUG_PING" THEN DebugPing(m)
  ELSE IF m.type = "LIST_MODELS" THEN ListModels(m, ans)
  ELSE UnknownType(m)

\* The background listener receives a message that is no ASK_OLLAMA request.
OtherMessageReceive ==
  /\ askQ # << >>
  /\ Head(askQ).type # "ASK_OLLAMA"
  /\ askQ' = Tail(askQ)
  /\ \E ans \in TagsAnswers :
       /\ tabQ' = tabQ \o OtherBranch(Head(askQ), ans).tab
       /\ respQ' = respQ \o OtherBranch(Head(askQ), ans).resp
  /\ callbacks' = callbacks \o Registered(Head(askQ))
  /\ last' = "other"
  /\ UNCHANGED << conversationHistory, isAutomationRunning, askBtnDisabled, btnLabel,
                  timers, loops, fetching, tabHistories, statusQ, cbQ, pageLog,
                  waiting, asks, clicks, variant, chunkQ, panelLog, faults,
                  relay, endedBy, screen, reader, popupResult >>

\* The callback the vision panel gave to chrome.runtime.sendMessage for
\* SEND_TO_TAB: it logs what the background answered.
SendToTabCallback ==
  /\ callbacks # << >>
  /\ Head(callbacks).kind = "send"
  /\ respQ # << >>
  /\ callbacks' = Tail(callbacks)
  /\ respQ' = Tail(respQ)
  /\ panelLog' = Append(panelLog,
       IF Head(respQ).status = "error"
       THEN logStatus("Failed to deliver coordinate action: ", Head(respQ).message, TRUE)
       ELSE logStatus("Coordinate action forwarded to page: ", Head(respQ).message, FALSE))
  /\ last' = "other"
  /\ UNCHANGED << conversationHistory, isAutomationRunning, askBtnDisabled, btnLabel,
                  timers, loops, askQ, fetching, tabHistories, statusQ, tabQ, cbQ,
                  pageLog, waiting, asks, clicks, variant, chunkQ, faults, relay,
                  endedBy, screen, reader, popupResult >>

\* popup.js, the Ask button: its request carries no tabId, and its model is
\* whatever the select element holds.
PopupAskClick ==
  /\ \/ /\ popupResult' = << "Write a prompt first." >>
        /\ UNCHANGED << askQ, asks >>
     \/ /\ asks < MaxQuestions
        /\ \E model \in BOOLEAN, stream \in BOOLEAN :
             askQ' = Append(askQ, [type |-> "ASK_OLLAMA", model |-> model,
                                   stream |-> stream, tabId |-> 0, history |-> << >>,
                                   cb |-> [kind |-> "popup", stream |-> stream]])
        /\ popupResult' = << "Waiting for response..." >>
        /\ asks' = asks + 1
  /\ last' = "other"
  /\ UNCHANGED << conversationHistory, isAutomationRunning, askBtnDisabled, btnLabel,
                  timers, loops, fetching, tabHistories, respQ, statusQ, tabQ, cbQ,
                  pageLog, waiting, clicks, variant, chunkQ, callbacks, panelLog,
                  faults, relay, endedBy, screen, reader >>

\* The callback the popup's Ask button gave to chrome.runtime.sendMessage.
PopupCallback ==
  /\ callbacks # << >>
  /\ Head(callbacks).kind = "popup"
  /\ respQ # << >>
  /\ callbacks' = Tail(callbacks)
  /\ respQ' = Tail(respQ)
  /\ LET resp == Head(respQ)
     IN  popupResult' = IF resp.status = "error" THEN << "Error: ", resp.message >>
                        ELSE IF Head(callbacks).stream THEN << >>
                        ELSE << resp.message >>
  /\ last' = "other"
  /\ UNCHANGED << conversationHistory, isAutomationRunning, askBtnDisabled, btnLabel,
                  timers, loops, askQ, fetching, tabHistories, statusQ, tabQ, cbQ,
                  pageLog, waiting, asks, clicks, variant, chunkQ, panelLog, faults,
                  relay, endedBy, screen, reader >>

\* panel.js, debugPing: the panel sends DEBUG_PING.
debugPing ==
  /\ asks < MaxQuestions
  /\ askQ' = Append(askQ, [type |-> "DEBUG_PING", cb |-> [kind |-> "ping", stream |-> FALSE]])
  /\ asks' = asks + 1
  /\ last' = "other"
  /\ UNCHANGED askBtnDisabled
  /\ UNCHANGED << conversationHistory, isAutomationRunning, btnLabel,
                  timers, loops, fetching, tabHistories, respQ, statusQ, tabQ, cbQ,
                  pageLog, waiting, clicks, variant, chunkQ, callbacks, panelLog,
                  faults, relay, endedBy, screen, reader, popupResult >>

\* The callback of debugPing: it writes to the console at most.
debugPingCallback ==
  /\ callbacks # << >>
  /\ Head(callbacks).kind = "ping"
  /\ respQ # << >>
  /\ callbacks' = Tail(callbacks)
  /\ respQ' = Tail(respQ)
  /\ last' = "other"
  /\ UNCHANGED askBtnDisabled
  /\ UNCHANGED << conversationHistory, isAutomationRunning, btnLabel,
                  timers, loops, askQ, fetching, tabHistories, statusQ, tabQ, cbQ,
                  pageLog, waiting, asks, clicks, variant, chunkQ, panelLog, faults,
                  relay, endedBy, screen, reader, popupResult >>

\* panel.js, loadModels: the panel disables the Ask button and sends LIST_MODELS.
loadModels ==
  /\ asks < MaxQuestions
  /\ askQ' = Append(askQ, [type |-> "LIST_MODELS", cb |-> [kind |-> "models", stream |-> FALSE]])
  /\ askBtnDisabled' = TRUE
  /\ asks' = asks + 1
  /\ last' = "other"
  /\ UNCHANGED << conversationHistory, isAutomationRunning, btnLabel,
                  timers, loops, fetching, tabHistories, respQ, statusQ, tabQ, cbQ,
                  pageLog, waiting, clicks, variant, chunkQ, callbacks, panelLog,
                  faults, relay, endedBy, screen, reader, popupResult >>

\* The callback of loadModels: the Ask button is enabled when the answer is a
\* list that holds a model.
loadModelsCallback ==
  /\ callbacks # << >>
  /\ Head(callbacks).kind = "models"
  /\ respQ # << >>
  /\ callbacks' = Tail(callbacks)
  /\ respQ' = Tail(respQ)
  /\ askBtnDisabled' = ~(Head(respQ).status = "ok" /\ Head(respQ).message.arg # << >>)
  /\ last' = "other"
  /\ UNCHANGED << conversationHistory, isAutomationRunning, btnLabel,
                  timers, loops, askQ, fetching, tabHistories, statusQ, tabQ, cbQ,
                  pageLog, waiting, asks, clicks, variant, chunkQ, panelLog, faults,
                  relay, endedBy, screen, reader, popupResult >>

(***************************************************************************)
(* Several inspected tabs: the background serves the panel of another tab  *)
(* and its broadcasts reach this panel too                                 *)
(***************************************************************************)
OtherTab == 2

MaxForeign == 1

\* The messages sendPanelMessage broadcasts for the other tab.
ForeignMessages ==
  { StatusMsg("ok", Msg("Observed", << >>), "click", OtherTab),
    StatusMsg("error", Msg("Observed", << >>), "done", OtherTab) }
    \cup { [type |-> "OLLAMA_CHUNK", chunk |-> "x", tabId |-> OtherTab],
           [type |-> "DEBUG_LOG", message |-> "m", tabId |-> OtherTab] }

Foreign(q) == {i \in DOMAIN q : q[i].tabId = OtherTab}

\* sendPanelMessage(message, tabId) for the other tab: chrome.runtime.sendMessage
\* delivers it to every panel.
OtherTabBroadcast ==
  /\ Cardinality(Foreign(statusQ)) + Cardinality(Foreign(chunkQ)) < MaxForeign
  /\ \E msg \in ForeignMessages :
       IF msg.type = "AUTOMATION_STATUS"
       THEN statusQ' = Append(statusQ, msg) /\ UNCHANGED chunkQ
       ELSE chunkQ' = Append(chunkQ, msg) /\ UNCHANGED statusQ
  /\ last' = "other"
  /\ UNCHANGED << conversationHistory, isAutomationRunning, askBtnDisabled, btnLabel,
                  timers, loops, askQ, fetching, tabHistories, respQ, tabQ, cbQ,
                  pageLog, waiting, asks, clicks, variant, callbacks, panelLog,
                  faults, relay, endedBy, screen, reader, popupResult >>

\* The panel's Ask button and its listener, the first handler of the
\* background, and the broadcasts for the other tab.
NextTabs ==
  \/ AskClick
  \/ AskOllamaReceive
  \/ AskOllamaReply
  \/ AskClickCallback
  \/ OnChunk
  \/ OnAutomationStatus
  \/ TimerFire
  \/ OtherTabBroadcast

SpecTabs == Init /\ [][NextTabs]_vars

NextAsk ==
  \/ AskClick
  \/ PopupAskClick
  \/ debugPing
  \/ loadModels
  \/ PopupCallback
  \/ debugPingCallback
  \/ loadModelsCallback
  \/ SendToTab
  \/ AskOllamaReceive
  \/ OtherMessageReceive
  \/ AskOllamaReply
  \/ AskOllamaReplyV2
  \/ AskClickCallback
  \/ SendToTabCallback
  \/ OnChunk

SpecAsk == InitBoth /\ [][NextAsk]_vars

(***************************************************************************)
(* content.js: the translation of a normalized point to a pixel            *)
(*                                                                         *)
(* A JavaScript number is a binary floating-point value; here it has       *)
(* Precision significant bits instead of 53 and is written [m, k], the     *)
(* value m / 2^k.  Division and multiplication round to the nearest value, *)
(* ties to even, as IEEE 754 does.                                         *)
(***************************************************************************)
\* The number of bits of n.
Bits(n) == CHOOSE b \in 0..30 : n < 2^b /\ (b > 0 => 2^(b - 1) <= n)

\* n / 2^s rounded to the nearest integer, ties to even.
RoundShift(n, s) ==
  IF s = 0 THEN n
  ELSE LET q == n \div 2^s
           r == n % 2^s
           h == 2^(s - 1)
       IN  IF r > h \/ (r = h /\ q % 2 = 1) THEN q + 1 ELSE q

\* n / 2^k rounded to Precision significant bits.
Normalize(n, k) ==
  IF Bits(n) <= Precision THEN [m |-> n, k |-> k]
  ELSE [m |-> RoundShift(n, Bits(n) - Precision), k |-> k - (Bits(n) - Precision)]

\* The number a / b for integers 0 <= a <= b.
FDiv(a, b) ==
  IF a = 0 THEN [m |-> 0, k |-> 0]
  ELSE LET k == CHOOSE j \in 0..30 :
                  /\ (a * 2^j) \div b >= 2^(Precision - 1)
                  /\ (a * 2^j) \div b < 2^Precision
           q == (a * 2^k) \div b
           r == (a * 2^k) % b
       IN  [m |-> IF 2 * r > b \/ (2 * r = b /\ q % 2 = 1) THEN q + 1 ELSE q, k |-> k]

\* The number x * w for an integer w.
FMul(x, w) == Normalize(x.m * w, x.k)

\* Math.floor(x)
Floor(x) == x.m \div 2^(x.k)

\* A translation that forgets the viewport's size.
pixelUnscaled(n, side) == Floor(n)

\* Math.floor(message.x * window.innerWidth), and the same for y.
pixel(n, side) == Floor(FMul(n, side))

\* The handler computes screenX and screenY of a coordinate message.
Translate ==
  /\ screen.phase = "message"
  /\ screen' = [screen EXCEPT !.phase = "point",
                              !.screenX = pixel(screen.x, screen.innerWidth),
                              !.screenY = pixel(screen.y, screen.innerHeight)]
  /\ last' = "other"
  /\ UNCHANGED << conversationHistory, isAutomationRunning, askBtnDisabled, btnLabel,
                  timers, loops, askQ, fetching, tabHistories, respQ, statusQ, tabQ,
                  cbQ, pageLog, waiting, asks, clicks, variant, chunkQ, callbacks,
                  panelLog, faults, relay, endedBy, reader, popupResult >>

\* A viewport of positive size, a pixel (px, py) inside it, and the message
\* that carries the pixel normalized to the viewport.
InitPixel ==
  /\ Idle
  /\ fetching = << >>
  /\ variant = 1
  /\ \E W \in 1..MaxSide, H \in 1..MaxSide :
       \E px \in 0..(W - 1), py \in 0..(H - 1) :
         screen = [phase |-> "message", innerWidth |-> W, innerHeight |-> H,
                   px |-> px, py |-> py, x |-> FDiv(px, W), y |-> FDiv(py, H),
                   screenX |-> 0, screenY |-> 0]
  /\ reader = NoStream
  /\ popupResult = << >>

NextPixel == Translate

SpecPixel == InitPixel /\ [][NextPixel]_vars

\* The corner values of a box in the 0..1000 system.
BoxValues == {0, 500, 1000}

\* The vision panel computes the centre of box_2d = [ymin, xmin, ymax, xmax]
\* and divides it by 1000; (xmin + xmax) / 2 is exact, the division rounds.
BoxCentre ==
  /\ screen.phase = "box"
  /\ LET b == screen.box_2d
     IN  screen' = [phase |-> "message",
                    innerWidth |-> screen.innerWidth, innerHeight |-> screen.innerHeight,
                    x |-> FDiv(b[2] + b[4], 2000), y |-> FDiv(b[1] + b[3], 2000),
                    screenX |-> 0, screenY |-> 0]
  /\ last' = "other"
  /\ UNCHANGED << conversationHistory, isAutomationRunning, askBtnDisabled, btnLabel,
                  timers, loops, askQ, fetching, tabHistories, respQ, statusQ, tabQ,
                  cbQ, pageLog, waiting, asks, clicks, variant, chunkQ, callbacks,
                  panelLog, faults, relay, endedBy, reader, popupResult >>

\* A viewport of positive size and a box the model answered with.
InitBox ==
  /\ Idle
  /\ fetching = << >>
  /\ variant = 1
  /\ \E W \in 1..MaxSide, H \in 1..MaxSide :
       \E ymin \in BoxValues, xmin \in BoxValues, ymax \in BoxValues, xmax \in BoxValues :
         screen = [phase |-> "box", innerWidth |-> W, innerHeight |-> H,
                   box_2d |-> << ymin, xmin, ymax, xmax >>]
  /\ reader = NoStream
  /\ popupResult = << >>

NextBox == BoxCentre \/ Translate

SpecBox == InitBox /\ [][NextBox]_vars

(***************************************************************************)
(* background.js: the reader of a streamed body                            *)
(*                                                                         *)
(* The body is a token text in which "n" is the newline; a read hands the  *)
(* reader the next part of the body.                                       *)
(***************************************************************************)
RECURSIVE split(_)
\* buffer.split("\n")
split(t) ==
  LET nl == {i \in 1..Len(t) : t[i] = "n"}
  IN  IF nl = {} THEN << t >>
      ELSE << SubSeq(t, 1, Min(nl) - 1) >> \o split(SubSeq(t, Min(nl) + 1, Len(t)))

\* line.trim()
trim(line) == DropTrailing(DropWhile(line, Space), Space)

Chunk(line, tabId) ==
  [type |-> "OLLAMA_CHUNK",
   chunk |-> IF Truthy(Get(JSONParse(line).val, "response"))
             THEN Get(JSONParse(line).val, "response") ELSE "",
   tabId |-> tabId]

RECURSIVE ChunksOf(_, _)
\* The loop over the lines: an empty line is skipped, a line that does not
\* parse is logged, every other line is sent as one OLLAMA_CHUNK message.
ChunksOf(lines, tabId) ==
  IF lines = << >> THEN << >>
  ELSE (IF trim(Head(lines)) # << >> /\ JSONParse(Head(lines)).ok
        THEN << Chunk(Head(lines), tabId) >> ELSE << >>)
       \o ChunksOf(Tail(lines), tabId)

\* One turn of the loop with a read that brought data: the lines before the
\* last newline are handled, what follows it stays in the buffer.
ReaderRead ==
  /\ reader.phase = "reading"
  /\ reader.reads # << >>
  /\ LET lines == split(reader.buffer \o Head(reader.reads))
     IN  /\ reader' = [reader EXCEPT !.reads = Tail(@), !.buffer = lines[Len(lines)]]
         /\ chunkQ' = chunkQ \o ChunksOf(SubSeq(lines, 1, Len(lines) - 1), reader.tabId)
  /\ last' = "other"
  /\ UNCHANGED << conversationHistory, isAutomationRunning, askBtnDisabled, btnLabel,
                  timers, loops, askQ, fetching, tabHistories, respQ, statusQ, tabQ,
                  cbQ, pageLog, waiting, asks, clicks, variant, callbacks, panelLog,
                  faults, relay, endedBy, screen, popupResult >>

\* The read that reports done: the loop ends.
ReaderDone ==
  /\ reader.phase = "reading"
  /\ reader.reads = << >>
  /\ reader' = [reader EXCEPT !.phase = "done"]
  /\ last' = "other"
  /\ UNCHANGED << conversationHistory, isAutomationRunning, askBtnDisabled, btnLabel,
                  timers, loops, askQ, fetching, tabHistories, respQ, statusQ, tabQ,
                  cbQ, pageLog, waiting, asks, clicks, variant, chunkQ, callbacks,
                  panelLog, faults, relay, endedBy, screen, popupResult >>

LineX == << "{", "r:x", "}" >>
LineY == << "{", "r:y", "}" >>

StreamPieces == { LineX, LineY, << "n" >>, << "s" >> }

RECURSIVE BodiesUpTo(_)
BodiesUpTo(n) ==
  IF n = 0 THEN { << >> }
  ELSE LET S == BodiesUpTo(n - 1) IN S \cup { t \o p : t \in S, p \in StreamPieces }

\* The parts of body between the cuts, in order.
ReadsOf(body, cuts) ==
  LET at == [i \in 1..Cardinality(cuts) |->
               CHOOSE c \in cuts : Cardinality({d \in cuts : d < c}) = i - 1]
      from(i) == IF i = 1 THEN 1 ELSE at[i - 1] + 1
      to(i) == IF i = Cardinality(cuts) + 1 THEN Len(body) ELSE at[i]
  IN  [i \in 1..(Cardinality(cuts) + 1) |-> SubSeq(body, from(i), to(i))]

\* A streamed body and one way of splitting it into reads.
InitStream ==
  /\ Idle
  /\ fetching = << >>
  /\ variant = 1
  /\ screen = NoScreen
  /\ popupResult = << >>
  /\ \E body \in BodiesUpTo(MaxStreamPieces) \ { << >> } :
       \E cuts \in SUBSET (1..(Len(body) - 1)) :
         /\ Cardinality(cuts) <= MaxCuts
         /\ reader = [phase |-> "reading", body |-> body, reads |-> ReadsOf(body, cuts),
                      buffer |-> << >>, tabId |-> INSPECTED_TAB_ID]

NextStream ==
  \/ ReaderRead
  \/ ReaderDone

SpecStream == InitStream /\ [][NextStream]_vars

(***************************************************************************)
(* The extraction alone: the handler applied to every reply of the bound   *)
(***************************************************************************)
ObjA == << "{", "a:click", "}" >>
ObjK == << "{", "k:v", "}" >>
ObjAK == << "{", "a:click", ",", "k:v", "}" >>
ObjE == << "{", "a:", "}" >>
ObjD == << "{", "a:done", "}" >>

Pieces ==
  { << "w" >>, << "s" >>, << "F" >>, << "{" >>, << "}" >>, ObjA, ObjK, ObjAK, ObjE, ObjD }

RECURSIVE RawUpTo(_)
RawUpTo(n) ==
  IF n = 0 THEN { << >> }
  ELSE LET S == RawUpTo(n - 1) IN S \cup { t \o p : t \in S, p \in Pieces }

InitExtract ==
  /\ Idle
  /\ variant = 1
  /\ screen = NoScreen
  /\ reader = NoStream
  /\ popupResult = << >>
  /\ \E raw \in RawUpTo(MaxPieces) :
       fetching = << [kind |-> "ok", response |-> raw, stream |-> FALSE, cb |-> << >>,
                      tabId |-> INSPECTED_TAB_ID] >>

NextExtract == AskOllamaReply

SpecExtract == InitExtract /\ [][NextExtract]_vars

(***************************************************************************)
(* Properties of the extraction (checked under SpecExtract)                *)
(***************************************************************************)
\* The handler has run on the reply; the reply is what it stored in the history.
Processed == fetching = << >> /\ Len(tabHistories) = 1

Raw == tabHistories[1].content

\* The places where a well-formed object stands in a text.
ObjectsIn(text) ==
  { p \in (1..Len(text)) \X (1..Len(text)) :
      /\ p[1] < p[2]
      /\ text[p[1]] = "{"
      /\ text[p[2]] = "}"
      /\ JSONParse(SubSeq(text, p[1], p[2])).ok }

ObjectAt(text, p) == JSONParse(SubSeq(text, p[1], p[2])).val

\* What the handler does with a command it holds, without the extraction.
Handled(cmd, tabId) ==
  IF ~Truthy(Get(cmd, "action")) THEN OnMissingAction(cmd, tabId)
  ELSE IF Get(cmd, "action") \in Terminal THEN OnTerminal(cmd, tabId)
  ELSE OnRelay(cmd, tabId)

\* The extraction gave exactly this object and the handler acted on it.
Extracted(obj) ==
  /\ actionCommand(Raw) = [ok |-> TRUE, val |-> obj]
  /\ statusQ = Handled(obj, INSPECTED_TAB_ID).status
  /\ tabQ = Handled(obj, INSPECTED_TAB_ID).tab

\* Around the object there are only word characters, whitespace and at most
\* one fence on each side.
PlainAround(text, p) ==
  /\ \A i \in 1..Len(text) :
       (i < p[1] \/ i > p[2]) => text[i] \in WordChars \cup Space \cup {"F"}
  /\ Cardinality({i \in 1..p[1] : text[i] = "F"}) <= 1
  /\ Cardinality({i \in p[2]..Len(text) : text[i] = "F"}) <= 1

NoBracePair(text) ==
  ~\E i, j \in 1..Len(text) : i < j /\ text[i] = "{" /\ text[j] = "}"

\* C2: a reply with no "{" followed by a "}" fails extraction: exactly one
\* status, an error, goes to the panel and nothing goes to the content script.
C2_NoBracesFails ==
  (Processed /\ NoBracePair(Raw)) =>
    /\ ~actionCommand(Raw).ok
    /\ Len(statusQ) = 1
    /\ statusQ[1].status = "error"
    /\ tabQ = << >>

\* A reply whose only braces stand the wrong way round was reported.
C2_Witness ==
  /\ Processed
  /\ Raw = << "w", "}", "s", "{" >>
  /\ Len(statusQ) = 1
  /\ statusQ[1].status = "error"

\* C3: a reply that parses to an object without an action field is reported
\* as an error and nothing goes to the content script.
C3_NoActionRejected ==
  (Processed /\ actionCommand(Raw).ok /\ "action" \notin DOMAIN actionCommand(Raw).val) =>
    /\ Len(statusQ) = 1
    /\ statusQ[1].status = "error"
    /\ tabQ = << >>

\* An object with another key only, in prose, was rejected.
C3_Witness ==
  /\ Processed
  /\ Raw = << "w", "s" >> \o ObjK
  /\ Len(statusQ) = 1
  /\ statusQ[1].status = "error"
  /\ tabQ = << >>

(***************************************************************************)
(* Properties of the automation loop                                       *)
(***************************************************************************)
\* C4: a command whose action is done, answer or error is never sent to the
\* content script as an AUTOMATE_ACTION message, with either handler.
C4_TerminalNeverRelayed ==
  \A i \in 1..Len(tabQ) : Get(tabQ[i].command, "action") \notin Terminal

\* The panel handles the status event at the head of its queue.
StatusStep == statusQ # << >> /\ statusQ' = Tail(statusQ)

\* C5: when the panel handles the status of a command whose action is done,
\* error or answer, the running flag is false afterwards.
C5_TerminalStopsRun ==
  [][(StatusStep /\ Head(statusQ).action \in Terminal) => ~isAutomationRunning']_vars

\* C6: when the panel handles the status of an extraction failure during a
\* run, the observation is appended and the run goes on to a new iteration.
C6_ExtractionFailureContinues ==
  [][(StatusStep /\ Head(statusQ).action = "none" /\ isAutomationRunning)
       => (/\ conversationHistory' =
                Append(conversationHistory, Observation(Head(statusQ).message))
           /\ isAutomationRunning')]_vars

\* C7: once an execution outcome with status error has stopped the run, no
\* model request is issued until a new run is started.
C7_ErrorOutcomeStopsRequests ==
  [][(endedBy = "outcome" /\ endedBy' = "outcome") => asks' = asks]_vars

\* The background handler finishes a model call that failed.
ModelFailureStep ==
  fetching # << >> /\ fetching' = Tail(fetching) /\ Head(fetching).kind # "ok"

\* The panel's callback receives an error response.
ErrorResponseStep ==
  respQ # << >> /\ respQ' = Tail(respQ) /\ Head(respQ).status = "error"

\* C8: a model call that fails is answered with an error and adds nothing to
\* the background's history, emits no status and sends no command; the panel's
\* callback then stops the run and leaves the conversation history as it was.
C8_ModelFailureStopsRun ==
  [][/\ ModelFailureStep =>
          /\ respQ' = Append(respQ, respQ'[Len(respQ')])
          /\ respQ'[Len(respQ')].status = "error"
          /\ tabHistories' = tabHistories
          /\ statusQ' = statusQ
          /\ tabQ' = tabQ
          /\ conversationHistory' = conversationHistory
     /\ ErrorResponseStep =>
          /\ ~isAutomationRunning'
          /\ conversationHistory' = conversationHistory]_vars

\* The only request of a run failed and the run was stopped by its response
\* with both histories empty.
C8_Witness ==
  /\ endedBy = "resp"
  /\ ~isAutomationRunning
  /\ asks = 1
  /\ askQ = << >> /\ fetching = << >> /\ respQ = << >>
  /\ conversationHistory = << >>
  /\ tabHistories = << >>

\* C9: after the user's stop, and until a new start, an iteration begun by the
\* re-trigger timer returns at its top check: no capture is started and no
\* model request is sent.
C9_StoppedLoopReturns ==
  [][(endedBy = "user" /\ timers = timers' + 1)
       => (/\ last' = "return"
           /\ loops' = loops
           /\ askQ' = askQ
           /\ asks' = asks)]_vars

\* After the user's stop a timer fired and the iteration returned at once.
C9_Witness ==
  /\ endedBy = "user"
  /\ last = "return"
  /\ ~isAutomationRunning
  /\ loops = [html |-> 0, tab |-> 0, shot |-> 0]

\* C10: after the user's stop, and until a new start, nothing that arrives
\* appends to the conversation history, changes the running flag or acts on
\* the page.
C10_LateResultDiscarded ==
  [][(endedBy = "user" /\ endedBy' = "user")
       => (/\ conversationHistory' = conversationHistory
           /\ isAutomationRunning' = isAutomationRunning
           /\ pageLog' = pageLog)]_vars

\* The iterations of the loop that are capturing, and the model requests that
\* are sent and not yet answered.
ActiveIterations == loops.html + loops.tab + loops.shot

OutstandingRequests == Len(askQ) + Len(fetching)

\* C11: at no time are two planning iterations active: the iterations that
\* are capturing and the model requests not yet answered are at most one.
C11_OneIterationAtATime == ActiveIterations + OutstandingRequests <= 1

\* C12: each successful planning cycle in which no terminal action fired
\* leaves two more turns in the conversation history, the model's turn and the
\* observation, so that N cycles leave 2N turns.
C12_TwoTurnsPerCycle ==
  [][(/\ StatusStep
      /\ isAutomationRunning
      /\ Head(statusQ).status = "ok"
      /\ Head(statusQ).action \notin Terminal)
       => Len(conversationHistory') = Len(conversationHistory) + 2]_vars

\* The history that callOllamaGenerate is given for a request: the first
\* handler passes message.history, the second its own tabHistories[tabId].
Replayed(m) == IF variant = 1 THEN m.history ELSE tabHistories

\* Nothing but the request at the head of askQ is pending.
OnlyRequestPending ==
  /\ Len(askQ) = 1
  /\ ActiveIterations = 0
  /\ timers = 0
  /\ fetching = << >> /\ respQ = << >> /\ statusQ = << >>
  /\ tabQ = << >> /\ cbQ = << >> /\ waiting = << >>

\* C13: the first request of a run, sent when the panel's history has just
\* been reset, replays an empty history to the model.
C13_NewRunReplaysEmptyHistory ==
  (OnlyRequestPending /\ Head(askQ).history = << >>) => Replayed(Head(askQ)) = << >>

(***************************************************************************)
(* Properties of the executor (checked under SpecExec)                     *)
(***************************************************************************)
SelectorActions ==
  { "click", "type", "submit", "scroll_to_element", "get_text", "get_value" }

\* The content script ran the AUTOMATE_ACTION handler on the head of tabQ and
\* sent its outcome.
ExecStep ==
  /\ tabQ # << >>
  /\ tabQ' = Tail(tabQ)
  /\ Len(cbQ') = Len(cbQ) + 1
  /\ ~cbQ'[Len(cbQ')].lastError

SentOutcome == cbQ'[Len(cbQ')].resp

\* The content script ran the coordinate handler on the delivered message.
CoordinateStep ==
  /\ relay.phase = "sent"
  /\ relay' # relay
  /\ relay' \notin OnDeliveryError(relay, AbsentListener)

LacksField(cmd) ==
  \/ cmd.action \in SelectorActions /\ cmd.selector = Undefined
  \/ cmd.action \in {"type", "navigate", "answer"} /\ cmd.value = Undefined

\* C14: a command without a field its action requires, and a coordinate
\* message without x or y, is answered with status error and changes nothing
\* on the page.
C14_MissingFieldIsError ==
  [][/\ (ExecStep /\ LacksField(Head(tabQ).command))
          => (SentOutcome.status = "error" /\ pageLog' = pageLog)
     /\ (CoordinateStep /\ (relay.msg.x = Undefined \/ relay.msg.y = Undefined))
          => (/\ Len(relay'.responses) = 1
              /\ relay'.responses[1].status = "error"
              /\ pageLog' = pageLog)]_vars

\* C15: every execution in which a fault was raised ended with an outcome of
\* status error, and no exception left the handler.
C15_FaultIsErrorOutcome ==
  \A i \in 1..Len(faults) : faults[i].status = "error" /\ ~faults[i].escaped

OkOrError == {"ok", "error"}

\* C16: the status of every outcome of the content script, of either handler,
\* and of every status event forwarded to the panel is ok or error.
C16_StatusOkOrError ==
  /\ \A i \in 1..Len(cbQ) : cbQ[i].resp.status \in OkOrError
  /\ \A i \in 1..Len(waiting) : waiting[i].resp.status \in OkOrError
  /\ \A i \in 1..Len(statusQ) : statusQ[i].status \in OkOrError
  /\ relay # NoDelivery =>
       \A i \in 1..Len(relay.responses) : relay.responses[i].status \in OkOrError

\* C17: a selector-targeted action whose selector matches no element is
\* answered with status error and a message naming the selector; nothing on
\* the page changes and no fault is raised.
C17_NotFoundIsError ==
  [][(/\ ExecStep
      /\ Head(tabQ).command.action \in SelectorActions
      /\ Head(tabQ).command.selector = "#missing")
       => (/\ SentOutcome = Response("error", Msg("Element not found for selector: ",
                                                  << "#missing" >>))
           /\ pageLog' = pageLog
           /\ faults' = faults)]_vars

\* A click on a selector that matches nothing was answered and forwarded.
C17_Witness ==
  /\ Len(statusQ) = 1
  /\ statusQ[1].status = "error"
  /\ statusQ[1].action = "click"
  /\ statusQ[1].message = Msg("Element not found for selector: ", << "#missing" >>)
  /\ pageLog = << >>

\* C18: a coordinate message whose point has no element under it is answered
\* with exactly one outcome, status error, saying so; no click or type is
\* performed.
C18_NoElementAtPoint ==
  [][(CoordinateStep /\ relay.msg.x = "0.9" /\ relay.msg.y # Undefined)
       => (/\ relay'.responses =
                << Response("error", Msg("No element found at coordinates", << >>)) >>
           /\ pageLog' = pageLog
           /\ faults' = faults)]_vars

\* A coordinate click on a point without an element was answered.
C18_Witness ==
  /\ relay # NoDelivery
  /\ relay.msg.action = "click"
  /\ relay.msg.x = "0.9"
  /\ relay.responses = << Response("error", Msg("No element found at coordinates", << >>)) >>
  /\ pageLog = << >>

(***************************************************************************)
(* Properties of sendMessageToTab (checked under SpecExec)                 *)
(***************************************************************************)
\* An attempt's callback found no listener: the content script did nothing.
AbsentStep ==
  /\ relay.phase = "sent"
  /\ relay' # relay
  /\ relay'.responses = relay.responses
  /\ pageLog' = pageLog
  /\ faults' = faults

\* C19 as stated: a delivery makes at most 3 attempts in total.
C19_ThreeAttempts == relay # NoDelivery => relay.attempts <= 3

\* C19 as the code has it: a delivery with the default budget makes at most 4
\* attempts, the first and 3 retries, and at most 3 re-injections; when the
\* last attempt finds no listener the delivery ends with an error that carries
\* that diagnostic, and a delivery that has ended does nothing more.
C19_FourAttempts ==
  [][/\ relay' # NoDelivery =>
          (relay'.attempts <= DefaultRetries + 1 /\ relay'.injections <= DefaultRetries)
     /\ (AbsentStep /\ relay.attempts = DefaultRetries + 1) =>
          relay' = Logged(relay, "Error executing action on page: ", AbsentListener, TRUE)
     /\ (relay # NoDelivery /\ relay.phase = "done") => relay' = relay]_vars

\* Four attempts found no listener and the delivery ended with the error.
C19_Witness ==
  /\ relay # NoDelivery
  /\ relay.phase = "done"
  /\ relay.attempts = 4
  /\ relay.injections = 3
  /\ relay.log = [text |-> "Error executing action on page: ", arg |-> AbsentListener,
                  isError |-> TRUE]
  /\ pageLog = << >>

TransportFailure(msg) ==
  /\ msg.status = "error"
  /\ msg.message.text = "Failed to communicate with content script: "

\* The run was stopped by the status of a failed delivery, the last turn of
\* the history being its observation.
EndedByTransportFailure ==
  /\ endedBy = "outcome"
  /\ conversationHistory # << >>
  /\ conversationHistory[Len(conversationHistory)].content[1] = "Observation: "
  /\ conversationHistory[Len(conversationHistory)].content[2].text
       = "Failed to communicate with content script: "

\* C21: when the delivery of a command to the content script fails, the panel
\* handles an error status that sets the running flag to false, and from then
\* on no model request is issued until a new run is started.
C21_DeliveryFailureEndsRun ==
  [][/\ (StatusStep /\ TransportFailure(Head(statusQ))) => ~isAutomationRunning'
     /\ (EndedByTransportFailure /\ endedBy' = "outcome") => asks' = asks]_vars

(***************************************************************************)
(* Properties of the streaming path                                        *)
(***************************************************************************)
\* The background handler finishes a model call that was made with stream = true.
StreamReplyStep ==
  /\ fetching # << >>
  /\ Head(fetching).stream
  /\ fetching' = Tail(fetching)

\* C22: finishing a request made with stream = true sends no AUTOMATE_ACTION
\* message, emits no AUTOMATION_STATUS, leaves the background's history
\* unchanged, and sends the panel nothing but OLLAMA_CHUNK messages.
C22_StreamSkipsExtraction ==
  [][StreamReplyStep =>
       /\ tabQ' = tabQ
       /\ statusQ' = statusQ
       /\ tabHistories' = tabHistories
       /\ Len(chunkQ') >= Len(chunkQ)
       /\ \A i \in 1..Len(chunkQ') :
            IF i <= Len(chunkQ) THEN chunkQ'[i] = chunkQ[i]
            ELSE chunkQ'[i].type = "OLLAMA_CHUNK"]_vars

\* A streamed reply that holds a click command has been finished: its pieces
\* are on their way to the panel and nothing else has been produced.
C22_Witness ==
  /\ fetching = << >>
  /\ \E i \in 1..Len(chunkQ) : chunkQ[i].chunk = "a:click"
  /\ tabQ = << >>
  /\ statusQ = << >>
  /\ tabHistories = << >>
  /\ respQ # << >>
  /\ respQ[Len(respQ)].message.text = "Streaming response started..."

(***************************************************************************)
(* Properties of the status events                                         *)
(***************************************************************************)
\* The background handler finishes a model call that was made without
\* streaming and that the service answered.
ReplyStep ==
  /\ fetching # << >>
  /\ Head(fetching).kind = "ok"
  /\ ~Head(fetching).stream
  /\ fetching' = Tail(fetching)

\* The callback of the relayed command runs.
RelayCallbackStep == cbQ # << >> /\ cbQ' = Tail(cbQ)

HasStatusFields(msg) ==
  /\ {"status", "message", "action"} \subseteq DOMAIN msg
  /\ msg.status # Undefined
  /\ msg.action # Undefined

\* C23: processing a non-streaming reply reports exactly one status event
\* with the fields status, message and action: the handler either emits it
\* itself or relays one command, whose callback emits it.
C23_OneStatusPerReply ==
  [][/\ ReplyStep =>
          /\ Len(statusQ') + Len(tabQ') = Len(statusQ) + Len(tabQ) + 1
          /\ \A i \in (Len(statusQ) + 1)..Len(statusQ') : HasStatusFields(statusQ'[i])
     /\ RelayCallbackStep =>
          /\ Len(statusQ') = Len(statusQ) + 1
          /\ HasStatusFields(statusQ'[Len(statusQ')])]_vars

(***************************************************************************)
(* Properties of the end of a run                                          *)
(***************************************************************************)
\* Nothing is pending: no timer, no capture callback, no message in flight.
Quiescent ==
  /\ timers = 0
  /\ loops = [html |-> 0, tab |-> 0, shot |-> 0]
  /\ askQ = << >> /\ fetching = << >> /\ respQ = << >> /\ statusQ = << >>
  /\ tabQ = << >> /\ cbQ = << >> /\ waiting = << >>

\* C24: once a run has ended and everything pending has been handled, the
\* controls are idle: the Ask button is enabled and the start/stop button
\* shows its start label.
C24_EndedRunIsIdle ==
  (Quiescent /\ ~isAutomationRunning) => (~askBtnDisabled /\ btnLabel = IdleLabel)

(***************************************************************************)
(* Properties of the application of a command                              *)
(***************************************************************************)
\* What one run of the coordinate handler on the delivery's message leaves on
\* the page, for every element the point may hold.
OneCoordinateRun ==
  { CoordinateAction(relay.msg, el) : el \in elementFromPoint(relay.msg.x, relay.msg.y) }

\* What one run of the AUTOMATE_ACTION handler leaves on the page.
OneSelectorRun ==
  { AutomateAction(cmd, el).effects : cmd \in Commands, el \in Elements \cup {"none"} }

\* C25: a command is applied by the executor at most once, the relay's
\* retries included, and exactly once when its delivery succeeds: the page
\* shows the effects of no run or of one run, one outcome at most comes
\* back, and a successful delivery has one outcome and one run's effects.
C25_AppliedAtMostOnce ==
  /\ relay # NoDelivery =>
       /\ Len(relay.responses) <= 1
       /\ Cardinality({ i \in DOMAIN faults : faults[i].escaped }) <= 1
       /\ pageLog = << >> \/ \E o \in OneCoordinateRun : pageLog = o.effects
       /\ (relay.phase = "done" /\ ~relay.log.isError) =>
            \E o \in OneCoordinateRun :
              /\ pageLog = o.effects
              /\ relay.responses = o.responses
              /\ Len(o.responses) = 1
  /\ relay = NoDelivery =>
       /\ Len(tabQ) + Len(cbQ) + Len(waiting) + Len(statusQ) <= 1
       /\ pageLog = << >> \/ pageLog \in OneSelectorRun
       /\ (statusQ # << >> /\ ~TransportFailure(statusQ[1])) =>
            \E cmd \in Commands, el \in Elements \cup {"none"} :
              /\ pageLog = AutomateAction(cmd, el).effects
              /\ statusQ[1].message = AutomateAction(cmd, el).message

\* A delivery that succeeded at its second attempt or later: the click was
\* applied once.
C25_Witness ==
  /\ relay # NoDelivery
  /\ relay.phase = "done"
  /\ ~relay.log.isError
  /\ relay.attempts >= 2
  /\ relay.msg.action = "click"
  /\ pageLog = << "border", "click", "focus" >>

(***************************************************************************)
(* Properties of the error messages                                        *)
(***************************************************************************)
\* The message is a non-empty text.
NonEmpty(message) == message.text # ""

ErrorsHaveMessage(events) ==
  \A i \in DOMAIN events : events[i].status = "error" => NonEmpty(events[i].message)

\* C26: every outcome and every status event with status error carries a
\* non-empty message: the executor's outcomes, the statuses of the relay
\* callback, the statuses of an extraction failure and the background's error
\* responses.
C26_ErrorHasMessage ==
  /\ ErrorsHaveMessage(statusQ)
  /\ ErrorsHaveMessage(respQ)
  /\ ErrorsHaveMessage([i \in DOMAIN cbQ |-> cbQ[i].resp])
  /\ ErrorsHaveMessage([i \in DOMAIN waiting |-> waiting[i].resp])
  /\ relay # NoDelivery => ErrorsHaveMessage(relay.responses)
  /\ \A raw \in Replies :
       /\ ErrorsHaveMessage(Dispatch(raw, INSPECTED_TAB_ID).status)
       /\ ErrorsHaveMessage(DispatchV2(raw, INSPECTED_TAB_ID).status)
  /\ \A kind \in {"unreachable", "status"} : ErrorsHaveMessage(<< HandlerError(kind) >>)

\* The error status of a command whose element was not found has reached
\* the panel's queue with its message.
C26_Witness ==
  /\ statusQ # << >>
  /\ statusQ[1].status = "error"
  /\ statusQ[1].message.text = "Element not found for selector: "

(***************************************************************************)
(* Properties of the coordinate translation                                *)
(***************************************************************************)
\* C27: the pixel computed from the normalized coordinates of a pixel
\* (px, py) of the viewport is within one pixel of (px, py) on each axis.
C27_WithinOnePixel ==
  screen.phase = "point" =>
    /\ screen.screenX <= screen.px + 1 /\ screen.px <= screen.screenX + 1
    /\ screen.screenY <= screen.py + 1 /\ screen.py <= screen.screenY + 1

\* A translated point whose x is one pixel left of the pixel it came from:
\* the rounding of px / W and of the product placed it just below px.
C27_Witness ==
  /\ screen.phase = "point"
  /\ screen.px >= 2
  /\ screen.screenX + 1 = screen.px

(***************************************************************************)
(* Properties of the observations                                          *)
(***************************************************************************)
\* The loop composes a prompt and sends the request.
PromptStep == asks' = asks + 1 /\ askQ' # << >>

\* A request, a command or a status of an earlier step is still on its way.
StepOutstanding ==
  \/ askQ # << >> \/ fetching # << >>
  \/ tabQ # << >> \/ cbQ # << >> \/ waiting # << >>
  \/ statusQ # << >>

\* C28: a status event for the panel's tab is appended to the history once,
\* as the assistant turn "Observation: " + message, and a prompt is composed
\* from the history only when the status of every earlier step has been
\* appended, so that it holds the observations of all earlier steps in order.
C28_ObservationsBeforePrompt ==
  [][/\ (StatusStep /\ Head(statusQ).tabId \in {0, INSPECTED_TAB_ID}) =>
          conversationHistory' =
            Append(conversationHistory, Observation(Head(statusQ).message))
     /\ PromptStep =>
          /\ ~StepOutstanding
          /\ askQ'[Len(askQ')].history = conversationHistory]_vars

(***************************************************************************)
(* Properties of the two type actions                                      *)
(***************************************************************************)
\* The change notifications among the effects applied to the page.
Notifications(effects) ==
  { effects[i] : i \in DOMAIN effects } \cap { "input", "change" }

\* What the selector handler's type action fires on the element it found.
SelectorTypeNotifications ==
  Notifications(AutomateAction([action |-> "type", selector |-> "#b", value |-> "x"],
                               CHOOSE el \in Elements : TRUE).effects)

\* C29: a coordinate message with action type that found its element has
\* fired the notifications the selector handler's type fires, input and change.
C29_SameNotifications ==
  (/\ relay # NoDelivery
   /\ relay.msg.action = "type"
   /\ relay.responses # << >>
   /\ relay.responses[1].status = "success")
    => (/\ Notifications(pageLog) = SelectorTypeNotifications
        /\ SelectorTypeNotifications = { "input", "change" })

(***************************************************************************)
(* Properties of SEND_TO_TAB                                               *)
(***************************************************************************)
\* The background listener handles a SEND_TO_TAB message.
SendToTabStep ==
  /\ askQ # << >>
  /\ Head(askQ).type = "SEND_TO_TAB"
  /\ askQ' = Tail(askQ)

\* C30: the background forwards the payload of a SEND_TO_TAB message, an
\* EXECUTE_COORDINATE_ACTION message, to the content script of the tab and
\* does not answer the panel with an error.
C30_SendToTabForwarded ==
  [][SendToTabStep =>
       /\ tabQ' = Append(tabQ, Head(askQ).payload)
       /\ \A i \in (Len(respQ) + 1)..Len(respQ') : respQ'[i].status # "error"]_vars

(***************************************************************************)
(* Properties of the wait action                                           *)
(***************************************************************************)
\* The duration the command asks for: the integer its value parses to when
\* that is a duration, a non-negative number of milliseconds; 1000 otherwise.
RequestedDuration(value) ==
  IF parseInt(value) \in {"NaN", "-5"} THEN "1000" ELSE parseInt(value)

\* The content script receives a wait command and its handler runs.
WaitStep ==
  /\ tabQ # << >>
  /\ Get(Head(tabQ).command, "action") = "wait"
  /\ tabQ' = Tail(tabQ)
  /\ waiting' # waiting

\* C31: the handler of a wait command sends nothing when it runs and sets
\* one timer whose outcome has status ok and names the requested duration;
\* the timer's firing sends that one outcome.
C31_WaitOutcome ==
  [][/\ WaitStep =>
          /\ cbQ' = cbQ
          /\ Len(waiting') = Len(waiting) + 1
          /\ waiting'[Len(waiting')].resp.status = "ok"
          /\ waiting'[Len(waiting')].resp.message.arg =
               << RequestedDuration(Get(Head(tabQ).command, "value")) >>
     /\ (waiting # << >> /\ waiting' = Tail(waiting)) =>
          cbQ' = Append(cbQ, Head(waiting))]_vars

(***************************************************************************)
(* Properties of the context of an extraction failure                      *)
(***************************************************************************)
\* The reply gave no object, or an object without an action.
ExtractionFailed(raw) ==
  \/ ~actionCommand(raw).ok
  \/ ~Truthy(Get(actionCommand(raw).val, "action"))

\* C32: the status that reports an extraction failure, of either kind,
\* carries the first 100 characters of the raw reply.
C32_FailureCarriesRaw ==
  (Processed /\ ExtractionFailed(Raw)) =>
    /\ Len(statusQ) = 1
    /\ statusQ[1].message.arg = substring(Raw, 100)

(***************************************************************************)
(* Properties of the stream reader                                         *)
(***************************************************************************)
\* C33: when the stream has ended, the OLLAMA_CHUNK messages sent are one
\* for every non-empty JSON line of the body, in the order of the lines and
\* with the request's tabId, however the body was split into reads and
\* whether or not its last line ends with a newline.
C33_OneChunkPerLine ==
  reader.phase = "done" => chunkQ = ChunksOf(split(reader.body), reader.tabId)

(***************************************************************************)
(* Properties of the background listener's answers                         *)
(***************************************************************************)
\* The background listener takes a message.
ReceiveStep == askQ # << >> /\ askQ' = Tail(askQ)

\* The background listener resumes after its model call.
ResumeStep == fetching # << >> /\ fetching' = Tail(fetching)

\* C34: every message the background listener receives is answered by one
\* sendResponse call: the step that takes the message either answers it or
\* leaves a model call pending, the step that finishes a pending call answers
\* it, each answer is routed to the sender's callback, and no other step
\* answers anything.
C34_OneAnswerPerMessage ==
  [][/\ ReceiveStep =>
          /\ Len(respQ') + Len(fetching') = Len(respQ) + Len(fetching) + 1
          /\ Len(respQ') >= Len(respQ) /\ Len(fetching') >= Len(fetching)
     /\ ResumeStep => Len(respQ') = Len(respQ) + 1
     /\ (~ReceiveStep /\ ~ResumeStep) => Len(respQ') <= Len(respQ)
     /\ Len(callbacks') = Len(respQ')]_vars

C34_Witness ==
  /\ asks = 1 /\ askQ = << >> /\ fetching = << >>
  /\ Len(respQ) = 1
  /\ respQ[1] = HandlerError("unreachable")
  /\ callbacks = << [kind |-> "ask", stream |-> TRUE] >>

(***************************************************************************)
(* Properties of the content script's answers                              *)
(***************************************************************************)
\* The coordinate handler ran: the delivery ended with its success line or
\* with the port closed unanswered.
CoordinateRun ==
  /\ relay.phase = "sent"
  /\ relay'.phase = "done"
  /\ relay'.log.text = "Action successful: " \/ relay'.log.arg = PortClosed

\* An AUTOMATE_ACTION message is taken from the tab's queue.
AutomateRun ==
  tabQ # << >> /\ Head(tabQ).type = "AUTOMATE_ACTION" /\ tabQ' = Tail(tabQ)

\* C35: every AUTOMATE_ACTION message and every EXECUTE_COORDINATE_ACTION
\* message the content script handles is answered with exactly one outcome,
\* at once or when the wait timer fires.
C35_OneOutcomePerMessage ==
  [][/\ CoordinateRun => Len(relay'.responses) = Len(relay.responses) + 1
     /\ AutomateRun => Len(cbQ') + Len(waiting') = Len(cbQ) + Len(waiting) + 1]_vars

(***************************************************************************)
(* Properties of the translated point                                      *)
(***************************************************************************)
\* C36: the pixel point computed from the centre of a box in the 0..1000
\* system lies inside the viewport: 0 <= screenX < innerWidth and
\* 0 <= screenY < innerHeight.
C36_InsideViewport ==
  screen.phase = "point" =>
    /\ 0 <= screen.screenX /\ screen.screenX < screen.innerWidth
    /\ 0 <= screen.screenY /\ screen.screenY < screen.innerHeight

(***************************************************************************)
(* Properties of the panel's tab filter                                    *)
(***************************************************************************)
\* The panel's listener takes a message that carries the other tab's id.
ForeignStep ==
  \/ statusQ # << >> /\ statusQ' = Tail(statusQ) /\ Head(statusQ).tabId = OtherTab
  \/ chunkQ # << >> /\ chunkQ' = Tail(chunkQ) /\ Head(chunkQ).tabId = OtherTab

UnansweredStep ==
  /\ relay.phase = "sent"
  /\ relay' # relay
  /\ pageLog' # pageLog \/ faults' # faults
  /\ relay'.responses = relay.responses

\* C38: the relay goes on to a re-injection only from a delivery that found no
\* listener (the page untouched) while budget remains; a delivery error of
\* another kind and a failed re-injection end the delivery with an error and
\* without a further attempt; every further attempt follows the resend timer
\* and takes one from the budget, which never falls below zero, so a delivery
\* started with the default budget stops after at most DefaultRetries + 1
\* attempts.
C38_RetryOnlyAbsentListener ==
  [][/\ (relay.phase = "sent" /\ relay'.phase = "injecting") =>
          (relay.retries > 0 /\ pageLog' = pageLog /\ faults' = faults)
     /\ UnansweredStep =>
          (/\ relay'.phase = "done" /\ relay'.log.isError
           /\ relay'.log.arg = PortClosed
           /\ relay'.attempts = relay.attempts)
     /\ (relay.phase = "injecting" /\ relay' # relay) =>
          \/ relay'.phase = "timer" /\ relay'.injected = relay.injected + 1
          \/ (/\ relay'.phase = "done" /\ relay'.log.isError
              /\ relay'.log.text = "Injection failed: "
              /\ relay'.attempts = relay.attempts)
     /\ (relay # NoDelivery /\ relay'.attempts # relay.attempts) =>
          (/\ relay.phase = "timer" /\ relay.retries > 0
           /\ relay'.attempts = relay.attempts + 1
           /\ relay'.retries = relay.retries - 1)
     /\ relay' # NoDelivery =>
          (relay'.retries >= 0 /\ relay'.attempts + relay'.retries = DefaultRetries + 1)
     /\ (relay # NoDelivery /\ relay.phase = "done" /\ relay.log.isError) =>
          relay'.attempts = relay.attempts]_vars

\* The second attempt reached a handler that did not answer: the delivery
\* ended there with two retries left.
C38_Witness ==
  /\ relay # NoDelivery
  /\ relay.phase = "done"
  /\ relay.log.arg = PortClosed
  /\ relay.attempts = 2
  /\ relay.retries = 2

(***************************************************************************)
(* Properties of the answer action                                         *)
(***************************************************************************)
\* The value of the token val:x, the only value a reply of the bound carries.
AnswerValue == Get(actionCommand(RAnswer).val, "value")

\* The message names the value.
CarriesValue(message, v) ==
  message.text = v \/ \E j \in DOMAIN message.arg : message.arg[j] = v

\* C39: the status event reported for a reply whose command has the action
\* answer and the value v carries v in its message.
C39_AnswerCarriesValue ==
  \A i \in DOMAIN statusQ :
    statusQ[i].action = "answer" => CarriesValue(statusQ[i].message, AnswerValue)

(***************************************************************************)
(* Properties of a request that lacks its model or its tab                 *)
(***************************************************************************)
\* The background listener takes an ASK_OLLAMA request without a model or
\* without a tabId.
IncompleteRequestStep ==
  /\ askQ # << >>
  /\ askQ' = Tail(askQ)
  /\ Head(askQ).type = "ASK_OLLAMA"
  /\ ~Head(askQ).model \/ Head(askQ).tabId = 0

\* C40: an ASK_OLLAMA request without a model or without a tabId is answered
\* with status error and has no other effect: no model call is started, the
\* per-tab history is unchanged, no status event and no chunk is broadcast,
\* and nothing is sent to the content script.
C40_IncompleteRequestRejected ==
  [][IncompleteRequestStep =>
       /\ Len(respQ') = Len(respQ) + 1
       /\ respQ'[Len(respQ')].status = "error"
       /\ SubSeq(respQ', 1, Len(respQ)) = respQ
       /\ UNCHANGED << fetching, tabHistories, statusQ, chunkQ, tabQ, cbQ, pageLog >>]_vars

\* The popup asked with a model selected: the request had no tabId, and the
\* popup shows the error it was answered with.
C40_Witness ==
  /\ popupResult = << "Error: ", Msg("Missing tabId in message payload.", << >>) >>
  /\ fetching = << >> /\ tabHistories = << >> /\ statusQ = << >> /\ tabQ = << >>

====
